---------------------------- MODULE Spec2Model ----------------------------
(***************************************************************************)
(* State-machine model of the T2T-C10GX tick-to-trade pipeline RTL and its *)
(* host driver.  Every clocked module is modelled cycle by cycle: one      *)
(* action per state of its state machine, each action being the whole      *)
(* clock edge of that module (all always_ff blocks of the module).         *)
(* Module inputs that are sampled by the logic are state variables holding *)
(* the value presented during the current cycle; every clock action picks  *)
(* the values presented during the next cycle.                             *)
(***************************************************************************)
EXTENDS Integers, Sequences, FiniteSets, TLC

(***************************************************************************)
(* Bounds of the model                                                     *)
(***************************************************************************)
\* Number of core clock cycles explored (timestamp_cnt runs 0..MaxTime).
MaxTime == 9
\* Token replenish interval in cycles (300000 in the RTL, scaled down).
TOKEN_REPLENISH_CYCLES == 3
\* Largest bucket size and largest replenish amount the host writes to the
\* token rate register.
MaxTokenMax == 2
MaxTokenRate == 1
\* Entries of the symbol table (1024 in the RTL, scaled down).
NUM_ENTRIES == 4
\* Symbol-table loads and commits issued by the host.
MaxCamLoads == 4
MaxCamCommits == 2
\* Symbols of the book and banks of its memory (1024 and 4 in the RTL,
\* scaled down).
\* timestamp_counter: address bits of the histogram (8 in the source: 256
\* bins), bits of the time stamps (64 in the source), of a bin and of a
\* statistics counter (32 each in the source), and samples explored.
BIN_ADDR_WIDTH == 2
COUNTER_WIDTH == 5
HIST_WIDTH == 4
STAT_WIDTH == 4
MaxHistSamples == 3

NUM_SYMBOLS == 4
NUM_BANKS == 2
\* Messages the book stage takes from the decoder.
MaxBookMsgs == 3
MaxFrameMsgs == 4
RefSymbols == 2
RefMaxTime == 10
CONS_IDX_WIDTH == 4
ADDR_WIDTH == 1
MaxWords == 4
\* Width of the ring indices (16 in the RTL, scaled down).
IDX_WIDTH == 2
\* Width of the pointers of the DMA engine's input FIFO (5 in the RTL,
\* scaled down).
FIFO_PTR_WIDTH == 1
\* Decision records offered to the DMA engine.
MaxRecords == 5
\* Largest value of the drop counter at which records are still offered.
MaxDrops == 2
\* Width of a price (32 in the RTL, scaled down).
PRICE_WIDTH == 8
\* Largest sequence number carried by the messages of the input stream.
MaxSeq == 4
\* Frames the decoder takes from the splitter.
MaxFrames == 3
\* Beats of the input stream that are recorded for comparison with the
\* frames the splitter emits.
MaxStreamBeats == 2
\* The risk parameter seq_gap_threshold (10 in the documented scenario; no
\* register or port of the RTL holds it).
seq_gap_threshold == 1

(***************************************************************************)
(* Program constants                                                       *)
(***************************************************************************)
\* risk_gate.sv:237, core clock cycles per microsecond
CYCLES_PER_USEC == 300
\* risk_gate.sv:213, basis-point scale of the price band comparison
BPS_SCALE == 10000
\* registers.md:104, clock cycles within which the kill switch takes effect
KILL_LATENCY_CYCLES == 2
\* The token-bucket scenario: five events, a bucket of three tokens, one
\* token per replenish interval, a price band of 10%, and a replenish
\* interval longer than the time in which the events arrive and are decided.
ScenarioEvents == 5
ScenarioTokenMax == 3
ScenarioTokenRate == 1
ScenarioBandBps == 1000
ScenarioMaxTime == 18
ScenarioReplenishCycles == 32

\* The sequence-check scenario: the sequence number of the messages and the
\* number of frames the decoder takes.
SeqCheckSeq == 2
SeqCheckFrames == 2

\* symtab_cam.sv:62, maximum probes for collision resolution (8 of 1024 slots
\* in the source), scaled with the table so that a probe sequence can end
\* before it has visited every slot.
MAX_PROBES == 2
\* itch_splitter.sv:18-19, bytes per beat of the input stream (DATA_WIDTH / 8)
KEEP_WIDTH == 8
\* itch_splitter.sv:21, bytes of the message buffer
MSG_BUF_DEPTH == 128

VARIABLES
    \* ---- risk_gate registers ----
    risk_state, event_reg, decision_ts, accept, reject_reason,
    decision_reg, decision_pending, token_bucket, token_replenish_cnt,
    ref_price_reg,
    \* history: number of events decided so far, counted up to 2 (from 1 on
    \* accept and reject_reason hold a computed verdict, from 2 on
    \* decision_reg does)
    risk_decided,
    \* history: number of consecutive clock edges at which cfg_kill was set,
    \* counted up to KILL_LATENCY_CYCLES
    kill_age,
    \* ---- risk_gate inputs presented during the current cycle ----
    timestamp_cnt, event_valid, event_in, decision_ready,
    \* ---- configuration registers (CSR block) ----
    cfg_enable, cfg_kill, cfg_token_max, cfg_token_rate, cfg_price_band_bps,
    cfg_position_limit, cfg_stale_usec, ref_price_mem,
    \* ---- symtab_cam registers ----
    cam_0, cam_1, active_buffer, lkp_state, lkp_key_reg, lkp_hash_base,
    lkp_probe_cnt, lkp_probe_addr, lkp_found, lkp_result_idx, load_count,
    \* history: the results the lookup in progress has against each complete
    \* map that was active while it ran
    lkp_admissible,
    \* history: the results called for by the pairs inserted into each map
    \* that was active while the lookup in progress ran
    lkp_called_for,
    \* history: loads and commits issued so far
    cam_loads, cam_commits,
    \* history: for each buffer, the pairs <<key, index>> inserted into it
    \* since the last commit that made it the shadow buffer
    cam_inserted,
    \* ---- pcie_dma registers ----
    dma_state, prod_idx, cons_idx_sync, fifo_wr_ptr, fifo_rd_ptr, input_fifo,
    fifo_pop, pcie_write, pcie_address, pcie_writedata, stat_records_dma,
    stat_drops,
    \* ---- pcie_dma inputs presented during the current cycle ----
    record_valid, record_in, pcie_waitrequest,
    \* ---- ring registers of the CSR block ----
    cfg_ring_size, status_cons_idx,
    \* ---- host: ring memory and the state of Device and Device::poll ----
    host_ring, ring_entries_, consumer_idx_, poll_pc, poll_prod, poll_cons,
    poll_count,
    \* history: number of records handed to the host's callback
    consumed,
    \* history: the halves written to host memory for the record the DMA
    \* engine is working on
    wr_done,
    \* history: the halves of the latest records that were written to a slot
    \* and then covered by an advance of the producer index
    pub_last,
    \* history: the records that were on record_in when a drop was counted
    drop_counted,
    \* ---- itch_splitter registers ----
    split_state, msg_buffer, buf_wr_ptr, msg_bytes_collected, cur_msg_type,
    cur_msg_len, cur_seq, cur_ingress_ts, expected_seq, seq_gap_detected,
    seq_dupe_detected, stale_latch, byte_idx, tdata_reg, tkeep_reg,
    tlast_reg, tuser_reg, tvalid_reg, stat_messages, stat_seq_gaps,
    stat_seq_dupes,
    \* ---- itch_splitter inputs presented during the current cycle ----
    s_axis, m_axis_tready, cfg_seq_check_en, cfg_expected_seq,
    \* the simulator has entered the while loop of SPLIT_BODY
    in_while_loop,
    \* history: the first MaxStreamBeats beats taken from the source, whether
    \* more were taken, and the frames handed over until then
    rx_beats, rx_overflow, tx_frames,
    \* history: the value expected_seq took at the latest sequence gap while
    \* every message since was the expected one, else 0
    gap_expected,
    \* history: the packet in which an unknown type byte was found has not
    \* ended yet (open), and the beat in the input registers belongs to that
    \* packet (reg)
    unknown_pkt,
    \* ---- book_tob registers (state, msg_reg and event_reg of the source
    \* are book_state, msg_reg and book_event_reg) ----
    book_state, msg_reg, msg_pending, last_bank, current_entry, updated_entry,
    book_event_reg, event_pending, bram_en, bram_we, bram_addr, bram_wr_data,
    conflict_fifo_push, conflict_fifo_pop,
    \* the output registers and the memory of the BRAM banks
    bram_rd_data, bram_mem,
    \* the messages in the conflict FIFO, oldest first (fifo_mem between
    \* fifo_rd_ptr and fifo_wr_ptr)
    conflict_fifo,
    \* history: messages taken from the decoder
    book_msgs,
    \* ---- timestamp_counter: histogram memory, pipeline registers and
    \* statistics ----
    hist_mem, sample_valid_d1, bin_idx_d1, overflow_d1, latency_d1,
    stat_samples, stat_overflow,
    \* ---- PCIeConsumer (t2t_record.h): members and the locals of run ----
    cons_idx_, records_processed_, run_pc, run_prod,
    \* ---- axi_async_fifo: write domain, read domain, inputs, history ----
    mem, wr_ptr_bin, wr_ptr_gray, rd_ptr_gray_sync1, rd_ptr_gray_sync2,
    wr_overflow,
    rd_ptr_bin, rd_ptr_gray, wr_ptr_gray_sync1, wr_ptr_gray_sync2,
    rd_data_packed, rd_underflow,
    afifo_s_axis_tvalid, afifo_s_axis_tdata, afifo_m_axis_tready,
    wr_accepted, rd_delivered

riskVars == <<risk_state, event_reg, decision_ts, accept, reject_reason,
              decision_reg, decision_pending, token_bucket,
              token_replenish_cnt, ref_price_reg, risk_decided, kill_age,
              timestamp_cnt,
              event_valid, event_in, decision_ready>>
cfgVars == <<cfg_enable, cfg_kill, cfg_token_max, cfg_token_rate, cfg_price_band_bps,
             cfg_position_limit, cfg_stale_usec, ref_price_mem>>

camVars == <<cam_0, cam_1, active_buffer, lkp_state, lkp_key_reg,
             lkp_hash_base, lkp_probe_cnt, lkp_probe_addr, lkp_found,
             lkp_result_idx, load_count, lkp_admissible, cam_loads,
             cam_commits, cam_inserted, lkp_called_for>>

\* pcie_dma: registers, inputs, the ring memory it writes and its history
dmaRegs == <<dma_state, prod_idx, cons_idx_sync, fifo_wr_ptr, fifo_rd_ptr,
             input_fifo, fifo_pop, pcie_write, pcie_address, pcie_writedata,
             stat_records_dma, stat_drops, record_valid, record_in,
             pcie_waitrequest, host_ring, wr_done, pub_last, drop_counted>>

hostVars == <<ring_entries_, consumer_idx_, poll_pc, poll_prod, poll_cons,
              poll_count, consumed>>

dmaVars == <<dmaRegs, cfg_ring_size, status_cons_idx, hostVars>>

splitRegs == <<split_state, msg_buffer, buf_wr_ptr, msg_bytes_collected,
               cur_msg_type, cur_msg_len, cur_seq, cur_ingress_ts,
               expected_seq, seq_gap_detected, seq_dupe_detected, stale_latch,
               byte_idx, tdata_reg, tkeep_reg, tlast_reg, tuser_reg,
               tvalid_reg, stat_messages, stat_seq_gaps, stat_seq_dupes>>
splitInputs == <<s_axis, m_axis_tready>>
splitHistory == <<rx_beats, rx_overflow, tx_frames, gap_expected, unknown_pkt>>
splitVars == <<splitRegs, splitInputs, cfg_seq_check_en, cfg_expected_seq,
               in_while_loop, splitHistory>>

bookVars == <<book_state, msg_reg, msg_pending, last_bank, current_entry,
              updated_entry, book_event_reg, event_pending, bram_en, bram_we,
              bram_addr, bram_wr_data, bram_rd_data, bram_mem, conflict_fifo,
              conflict_fifo_push, conflict_fifo_pop, book_msgs>>

histVars == <<hist_mem, sample_valid_d1, bin_idx_d1, overflow_d1, latency_d1,
              stat_samples, stat_overflow>>

runVars == <<cons_idx_, records_processed_, run_pc, run_prod>>

wrDomain == <<mem, wr_ptr_bin, wr_ptr_gray, rd_ptr_gray_sync1, rd_ptr_gray_sync2,
              wr_overflow, afifo_s_axis_tvalid, afifo_s_axis_tdata,
              wr_accepted>>
rdDomain == <<rd_ptr_bin, rd_ptr_gray, wr_ptr_gray_sync1, wr_ptr_gray_sync2,
              rd_data_packed, rd_underflow, afifo_m_axis_tready,
              rd_delivered>>
afifoVars == <<wrDomain, rdDomain>>

vars == <<riskVars, cfgVars, camVars, dmaVars, splitVars, bookVars, histVars,
          runVars, afifoVars>>

\* The variables outside the risk gate and its configuration, and outside
\* the symbol table.
riskRest == <<camVars, dmaVars, splitVars, bookVars, histVars,
    runVars, afifoVars>>
camRest == <<riskVars, cfgVars, dmaVars, splitVars, bookVars, histVars,
    runVars, afifoVars>>
dmaRest == <<riskVars, camVars, splitVars, bookVars, histVars,
    runVars, afifoVars>>
splitRest == <<riskVars, cfgVars, camVars, dmaVars, bookVars, histVars,
    runVars, afifoVars>>
bookRest == <<riskVars, cfgVars, camVars, dmaVars, splitVars, histVars,
    runVars, afifoVars>>
histRest == <<riskVars, cfgVars, camVars, dmaVars, splitVars, bookVars,
             runVars, afifoVars>>
runRest == <<riskVars, cfgVars, camVars, splitVars, bookVars, histVars,
            afifoVars>>
afifoRest == <<riskVars, cfgVars, camVars, dmaVars, splitVars, bookVars,
              histVars, runVars>>

Min(a, b) == IF a < b THEN a ELSE b

\* The n bytes of a value v, lowest byte first (byte 0 is bits 7:0, as in
\* host memory for the fields of a record written over the Avalon port).
RECURSIVE LEBytes(_, _)
LEBytes(v, n) == IF n = 0 THEN <<>>
                 ELSE <<v % 256>> \o LEBytes(v \div 256, n - 1)

(***************************************************************************)
(* risk_gate.sv                                                            *)
(***************************************************************************)
RiskReasons == {"RISK_ACCEPT", "RISK_PRICE_BAND", "RISK_TOKEN_BUCKET",
                "RISK_POSITION_LIMIT", "RISK_KILL_SWITCH", "RISK_STALE_DATA",
                "RISK_SEQ_GAP"}

\* accept and reject_reason have no reset value (risk_gate.sv:253-258 omits
\* them): the all-zero encoding of the bitstream, or any other value.  The
\* model takes the zero encoding and one non-zero encoding.
PowerUpReasons == {"RISK_ACCEPT", "RISK_POSITION_LIMIT"}

\* book_event_t after reset ('0).  trigger_seq is history: the sequence
\* number of the ITCH message that caused the event (book_event_t has no
\* field for it, t2t_pkg.sv:158-169).
ZeroEvent == [symbol_idx |-> 0, stale |-> FALSE, ingress_ts |-> 0, book_ts |-> 0,
              trigger_seq |-> 0, last_trade_px |-> 0,
              tob |-> [bid_px |-> 0, bid_qty |-> 0, ask_px |-> 0, ask_qty |-> 0, valid |-> FALSE]]

\* risk_output_t after reset ('0)
ZeroDecision == [accept |-> FALSE, reason |-> "RISK_ACCEPT",
                 decision_ts |-> 0, book_event |-> ZeroEvent]

\* Top-of-book snapshots offered to the gate: one inside every limit, one
\* whose mid price is 10% off the reference, one above the position limit.
TobInputs == { [bid_px |-> 100, bid_qty |-> 1, ask_px |-> 100, ask_qty |-> 1, valid |-> TRUE],
               [bid_px |-> 110, bid_qty |-> 1, ask_px |-> 110, ask_qty |-> 1, valid |-> TRUE],
               [bid_px |-> 100, bid_qty |-> 5, ask_px |-> 100, ask_qty |-> 1, valid |-> TRUE] }

\* The first snapshot of TobInputs, the one inside every limit.
GoodTob == [bid_px |-> 100, bid_qty |-> 1, ask_px |-> 100, ask_qty |-> 1, valid |-> TRUE]

\* Book events that can be presented in the cycle whose timestamp is t: each
\* snapshot without the stale flag, and the good one with it.  The event of
\* cycle t is caused by the message with sequence number t + 1; its ingress
\* timestamp was taken from the counter in the same cycle, or in cycle 0 for
\* the event with the stale flag.
EventInputs(t) ==
    { [symbol_idx |-> 0, stale |-> FALSE, ingress_ts |-> t, book_ts |-> t,
       trigger_seq |-> t + 1, last_trade_px |-> 0, tob |-> b] : b \in TobInputs }
    \cup { [symbol_idx |-> 0, stale |-> TRUE, ingress_ts |-> 0, book_ts |-> t,
             trigger_seq |-> t + 1, last_trade_px |-> 0,
             tob |-> GoodTob] }

\* risk_gate.sv:170
check_token_ok == token_bucket > 0

\* risk_gate.sv:193-211.  current_price is PRICE_WIDTH bits wide and so are
\* both operands of the sum, so the sum is evaluated in PRICE_WIDTH bits and
\* its carry is lost before the shift.
current_price ==
    ((event_reg.tob.bid_px + event_reg.tob.ask_px) % (2 ^ PRICE_WIDTH)) \div 2
price_diff_abs == IF current_price >= ref_price_reg
                  THEN current_price - ref_price_reg
                  ELSE ref_price_reg - current_price
band_threshold == ref_price_reg * cfg_price_band_bps

\* risk_gate.sv:213-215
check_price_band_ok == \/ price_diff_abs * BPS_SCALE <= band_threshold
                       \/ ref_price_reg = 0
                       \/ cfg_price_band_bps = 0

\* risk_gate.sv:223-224
check_position_ok == /\ event_reg.tob.bid_qty <= cfg_position_limit
                     /\ event_reg.tob.ask_qty <= cfg_position_limit

\* risk_gate.sv:234-239
data_age_cycles == timestamp_cnt - event_reg.book_ts
stale_threshold_cycles == cfg_stale_usec * CYCLES_PER_USEC
check_not_stale == (data_age_cycles <= stale_threshold_cycles) \/ ~event_reg.stale

\* risk_gate.sv:245-246
check_not_killed == ~cfg_kill
check_no_seq_gap == ~event_reg.stale

\* risk_gate.sv:279-280
all_checks_ok == /\ check_not_killed /\ check_not_stale /\ check_no_seq_gap
                 /\ check_price_band_ok /\ check_token_ok /\ check_position_ok

\* risk_gate.sv:287-299
priority_reason ==
    IF ~check_not_killed THEN "RISK_KILL_SWITCH"
    ELSE IF ~check_not_stale THEN "RISK_STALE_DATA"
    ELSE IF ~check_no_seq_gap THEN "RISK_SEQ_GAP"
    ELSE IF ~check_price_band_ok THEN "RISK_PRICE_BAND"
    ELSE IF ~check_token_ok THEN "RISK_TOKEN_BUCKET"
    ELSE "RISK_POSITION_LIMIT"

\* risk_gate.sv:369-370
decision_valid == decision_pending /\ risk_state \in {"RISK_DECIDE", "RISK_IDLE"}
event_ready == risk_state = "RISK_IDLE" /\ cfg_enable

\* risk_gate.sv:178 and top_c10gx.sv:472 (ref_price_valid = ref_price_rd)
ref_price_rd == risk_state = "RISK_CHECK"

\* risk_gate.sv:162, a decision is handed over and it is an accept
consume_token == decision_valid /\ decision_ready /\ decision_reg.accept

\* risk_gate.sv:153-156, the bucket after a due replenishment
Replenished == IF token_bucket < cfg_token_max
               THEN Min(token_bucket + cfg_token_rate, cfg_token_max)
               ELSE token_bucket

\* risk_gate.sv:145-168, the token bucket always_ff block: the consume
\* assignment is last and overrides the replenish assignment.
TokenBucket(replenish_cycles) ==
    /\ token_replenish_cnt' = IF token_replenish_cnt >= replenish_cycles - 1
                              THEN 0 ELSE token_replenish_cnt + 1
    /\ token_bucket' = IF consume_token /\ token_bucket > 0
                       THEN token_bucket - 1
                       ELSE IF token_replenish_cnt >= replenish_cycles - 1
                            THEN Replenished
                            ELSE token_bucket

\* The block with the replenish interval of the model (risk_gate.sv:90).
TokenBucketClk == TokenBucket(TOKEN_REPLENISH_CYCLES)

\* The capture register behind a reference table that answers one cycle
\* after the read strobe: the word arrives while the gate is in RISK_DECIDE.
RefPriceClk_late ==
    ref_price_reg' = IF risk_state = "RISK_DECIDE"
                     THEN ref_price_mem[event_reg.symbol_idx]
                     ELSE ref_price_reg

\* risk_gate.sv:181-187
RefPriceClk ==
    ref_price_reg' = IF ref_price_rd THEN ref_price_mem[event_reg.symbol_idx]
                     ELSE ref_price_reg

\* The values presented on the gate's inputs during the next cycle.  The
\* gate samples event_valid/event_in only in RISK_IDLE (event_ready) and
\* decision_ready only while a decision is pending or in RISK_DECIDE; in the
\* cycles where an input is not sampled it is held at its idle value.
RiskInputs ==
    /\ timestamp_cnt < MaxTime
    /\ timestamp_cnt' = timestamp_cnt + 1
    /\ kill_age' = IF cfg_kill THEN Min(kill_age + 1, KILL_LATENCY_CYCLES) ELSE 0
    /\ event_valid' \in IF risk_state' = "RISK_IDLE" THEN BOOLEAN ELSE {FALSE}
    /\ event_in' \in IF event_valid' THEN EventInputs(timestamp_cnt') ELSE {ZeroEvent}
    /\ decision_ready' \in IF decision_pending' \/ risk_state' = "RISK_DECIDE"
                          THEN BOOLEAN ELSE {FALSE}

\* risk_gate.sv:261-269, the state machine in RISK_IDLE
RiskIdleFsm ==
    /\ risk_state = "RISK_IDLE"
    /\ decision_pending' = FALSE
    /\ IF event_valid /\ event_ready /\ cfg_enable
       THEN /\ event_reg' = event_in
            /\ decision_ts' = timestamp_cnt
            /\ risk_state' = "RISK_CHECK"
       ELSE UNCHANGED <<event_reg, decision_ts, risk_state>>
    /\ UNCHANGED <<accept, reject_reason, decision_reg, risk_decided>>

\* risk_gate.sv:271-275, the state machine in RISK_CHECK
RiskCheckFsm ==
    /\ risk_state = "RISK_CHECK"
    /\ risk_state' = "RISK_DECIDE"
    /\ UNCHANGED <<event_reg, decision_ts, accept, reject_reason,
                   decision_reg, decision_pending, risk_decided>>

\* risk_gate.sv:277-313, the state machine in RISK_DECIDE.  decision_reg is
\* loaded from the accept and reject_reason registers as they are before
\* this edge.
RiskDecideFsm ==
    /\ risk_state = "RISK_DECIDE"
    /\ accept' = all_checks_ok
    /\ reject_reason' = IF all_checks_ok THEN "RISK_ACCEPT" ELSE priority_reason
    /\ decision_reg' = [accept |-> accept, reason |-> reject_reason,
                        decision_ts |-> decision_ts, book_event |-> event_reg]
    /\ decision_pending' = TRUE
    /\ risk_decided' = Min(risk_decided + 1, 2)
    /\ risk_state' = IF decision_ready \/ ~decision_pending
                     THEN "RISK_IDLE" ELSE "RISK_DECIDE"
    /\ UNCHANGED <<event_reg, decision_ts>>

\* The other always_ff blocks of the gate at the same clock edge, and the
\* inputs of the next cycle.
RiskClk ==
    /\ TokenBucketClk /\ RefPriceClk /\ RiskInputs
    /\ UNCHANGED <<cfgVars, riskRest>>

\* One clock edge of the gate in each state of the state machine.
RiskIdle == RiskIdleFsm /\ RiskClk
RiskCheck == RiskCheckFsm /\ RiskClk
RiskDecide == RiskDecideFsm /\ RiskClk

(***************************************************************************)
(* csr_block (latency_histogram.sv:581-928): host writes to the            *)
(* configuration registers                                                 *)
(***************************************************************************)
\* latency_histogram.sv:757 and 890, CTRL register bit 0 (pipeline enable):
\* the host starts the pipeline (t2t_ctl.cpp:569-575 with enable set).
CsrWriteCtrl ==
    /\ ~cfg_enable
    /\ cfg_enable' = TRUE
    /\ UNCHANGED <<riskVars, riskRest, cfg_kill, cfg_token_max, cfg_token_rate,
                   cfg_price_band_bps, cfg_position_limit, cfg_stale_usec,
                   ref_price_mem>>

\* latency_histogram.sv:763 and 903, KILL register bit 0
CsrWriteKill ==
    /\ cfg_kill' = ~cfg_kill
    /\ UNCHANGED <<riskVars, riskRest, cfg_enable, cfg_token_max, cfg_token_rate,
                   cfg_price_band_bps, cfg_position_limit, cfg_stale_usec,
                   ref_price_mem>>

\* latency_histogram.sv:759 and 899-900, TOKEN_RATE register: one write sets
\* the bucket size (bits 31:16) and the replenish amount (bits 15:0), as
\* t2t_ctl.cpp:517 does.
CsrWriteTokenRate ==
    /\ \E m \in 1..MaxTokenMax, r \in 0..MaxTokenRate :
          /\ <<m, r>> # <<cfg_token_max, cfg_token_rate>>
          /\ cfg_token_max' = m
          /\ cfg_token_rate' = r
    /\ UNCHANGED <<riskVars, riskRest, cfg_enable, cfg_kill, cfg_price_band_bps,
                   cfg_position_limit, cfg_stale_usec, ref_price_mem>>

(***************************************************************************)
(* symtab_cam.sv: double-buffered symbol table                             *)
(***************************************************************************)
\* symtab_cam.sv:58
HASH_SIZE == NUM_ENTRIES

\* Bitwise exclusive or of two naturals (the ^ operator of hash_func).
RECURSIVE Xor(_, _)
Xor(a, b) == IF a = 0 THEN b
             ELSE IF b = 0 THEN a
             ELSE (((a % 2) + (b % 2)) % 2) + 2 * Xor(a \div 2, b \div 2)

\* symtab_cam.sv:110-117.  A key is the pair <<key[63:32], key[31:0]>>; the
\* result is the low HASH_WIDTH bits of the folded word.
hash_func(key) ==
    LET h0 == Xor(key[1], key[2])
        h1 == Xor(h0, h0 \div 65536)
        h2 == Xor(h1, h1 \div 256)
    IN  h2 % HASH_SIZE

\* The key "MSFT    " (0x4D534654 20202020).
MSFT == <<1297303124, 538976288>>

\* Keys presented on the lookup and load interfaces: three keys with the same
\* hash (one more than MAX_PROBES), and "MSFT    ".
CamKeys == { <<0, 1>>, <<0, 1 + HASH_SIZE>>, <<0, 1 + 2 * HASH_SIZE>>, MSFT }

\* symtab_cam.sv:119-120, the hash of the key on the lookup and on the load
\* interface (tabulated once for the keys of CamKeys)
HashTable == [k \in CamKeys |-> hash_func(k)]
hash_lookup(lookup_key) == HashTable[lookup_key]
hash_load(load_key) == HashTable[load_key]

\* Symbol indices presented on the load interface.
CamIdxs == {1, 3}

\* A slot whose valid bit is clear.  Its key and value are read by nothing
\* (symtab_cam.sv:152-156 test the valid bit first), so they are not kept.
EmptySlot == [valid |-> FALSE, key |-> <<0, 0>>, value |-> 0]

\* symtab_cam.sv:203-206 and 254-260, a buffer with every valid bit clear
EmptyTable == [a \in 0..(HASH_SIZE - 1) |-> EmptySlot]

\* symtab_cam.sv:151 and 216, the buffer lookups read and the one loads write
ActiveTable == IF active_buffer = 0 THEN cam_0 ELSE cam_1
ShadowTable == IF active_buffer = 0 THEN cam_1 ELSE cam_0

\* The outcome of a lookup as seen on lookup_hit / lookup_idx.
CamMiss == [hit |-> FALSE, idx |-> 0]
CamHit(i) == [hit |-> TRUE, idx |-> i]

\* symtab_cam.sv:149-167, the probe sequence run to its end against one
\* table: the result a lookup of key returns when the table does not change
\* under it.
RECURSIVE ProbeTable(_, _, _, _)
ProbeTable(tab, key, addr, cnt) ==
    IF tab[addr].valid /\ tab[addr].key = key THEN CamHit(tab[addr].value)
    ELSE IF ~tab[addr].valid \/ cnt >= MAX_PROBES - 1 THEN CamMiss
    ELSE ProbeTable(tab, key, (addr + 1) % HASH_SIZE, cnt + 1)

MapLookup(tab, key) == ProbeTable(tab, key, hash_lookup(key), 0)

\* symtab_cam.sv:210-238, the slot the load's while loop writes: the first
\* slot with a clear valid bit within MAX_PROBES probes, or -1 when the loop
\* ends without inserting.
RECURSIVE FirstFree(_, _, _)
FirstFree(tab, addr, probe) ==
    IF probe >= MAX_PROBES THEN -1
    ELSE IF ~tab[addr].valid THEN addr
    ELSE FirstFree(tab, (addr + 1) % HASH_SIZE, probe + 1)

\* symtab_cam.sv:273
load_ready(commit) == ~commit /\ load_count < NUM_ENTRIES

\* symtab_cam.sv:277
table_full == load_count >= NUM_ENTRIES

\* t2t_ctl.cpp:586-609, the value Device::load_symbol returns to its caller
\* for a load of index idx: false for an index outside the table, true after
\* the register writes whatever the table did with the load.
load_symbol(key, idx) == IF idx >= 1024 THEN FALSE ELSE TRUE

\* symtab_cam.sv:208-245, the shadow buffer after an accepted load
Loaded(tab, load_key, load_idx) ==
    LET addr == FirstFree(tab, hash_load(load_key), 0)
    IN  IF addr = -1 THEN tab
        ELSE [tab EXCEPT ![addr] = [valid |-> TRUE, key |-> load_key,
                                    value |-> load_idx]]

\* The load/commit block with a commit that swaps the buffers and leaves
\* the valid bits of the new shadow buffer as they are.
LoadCommitClk_noclear(load_valid, load_key, load_idx, commit) ==
    IF commit
    THEN /\ active_buffer' = 1 - active_buffer
         /\ load_count' = 0
         /\ cam_commits' = cam_commits + 1
         /\ cam_inserted' = [cam_inserted EXCEPT ![active_buffer] = {}]
         /\ UNCHANGED <<cam_0, cam_1, cam_loads>>
    ELSE IF load_valid /\ load_ready(commit)
    THEN /\ cam_0' = IF active_buffer = 0 THEN cam_0
                     ELSE Loaded(cam_0, load_key, load_idx)
         /\ cam_1' = IF active_buffer = 0 THEN Loaded(cam_1, load_key, load_idx)
                     ELSE cam_1
         /\ load_count' = IF FirstFree(ShadowTable, hash_load(load_key), 0) # -1
                          THEN load_count + 1 ELSE load_count
         /\ cam_loads' = cam_loads + 1
         /\ cam_inserted' =
                IF FirstFree(ShadowTable, hash_load(load_key), 0) # -1
                THEN [cam_inserted EXCEPT ![1 - active_buffer] =
                                              @ \cup {<<load_key, load_idx>>}]
                ELSE cam_inserted
         /\ UNCHANGED <<active_buffer, cam_commits>>
    ELSE UNCHANGED <<cam_0, cam_1, active_buffer, load_count, cam_loads,
                     cam_commits, cam_inserted>>

\* The load/commit block with a load that writes the buffer lookups read
\* instead of the shadow buffer.
LoadCommitClk_active(load_valid, load_key, load_idx, commit) ==
    IF commit
    THEN /\ active_buffer' = 1 - active_buffer
         /\ load_count' = 0
         /\ cam_0' = IF active_buffer = 0 THEN EmptyTable ELSE cam_0
         /\ cam_1' = IF active_buffer = 0 THEN cam_1 ELSE EmptyTable
         /\ cam_commits' = cam_commits + 1
         /\ cam_inserted' = [cam_inserted EXCEPT ![active_buffer] = {}]
         /\ UNCHANGED cam_loads
    ELSE IF load_valid /\ load_ready(commit)
    THEN /\ cam_0' = IF active_buffer = 0
                     THEN Loaded(cam_0, load_key, load_idx) ELSE cam_0
         /\ cam_1' = IF active_buffer = 0 THEN cam_1
                     ELSE Loaded(cam_1, load_key, load_idx)
         /\ load_count' = IF FirstFree(ActiveTable, hash_load(load_key), 0) # -1
                          THEN load_count + 1 ELSE load_count
         /\ cam_loads' = cam_loads + 1
         /\ cam_inserted' =
                IF FirstFree(ActiveTable, hash_load(load_key), 0) # -1
                THEN [cam_inserted EXCEPT ![active_buffer] =
                                              @ \cup {<<load_key, load_idx>>}]
                ELSE cam_inserted
         /\ UNCHANGED <<active_buffer, cam_commits>>
    ELSE UNCHANGED <<cam_0, cam_1, active_buffer, load_count, cam_loads,
                     cam_commits, cam_inserted>>

\* symtab_cam.sv:196-263, the load/commit always_ff block for one clock edge
\* with the given values on load_valid, load_key, load_idx and commit.
LoadCommitClk(load_valid, load_key, load_idx, commit) ==
    IF commit
    THEN /\ active_buffer' = 1 - active_buffer
         /\ load_count' = 0
         /\ cam_0' = IF active_buffer = 0 THEN EmptyTable ELSE cam_0
         /\ cam_1' = IF active_buffer = 0 THEN cam_1 ELSE EmptyTable
         /\ cam_commits' = cam_commits + 1
         /\ cam_inserted' = [cam_inserted EXCEPT ![active_buffer] = {}]
         /\ UNCHANGED cam_loads
    ELSE IF load_valid /\ load_ready(commit)
    THEN /\ cam_0' = IF active_buffer = 0 THEN cam_0
                     ELSE Loaded(cam_0, load_key, load_idx)
         /\ cam_1' = IF active_buffer = 0 THEN Loaded(cam_1, load_key, load_idx)
                     ELSE cam_1
         /\ load_count' = IF FirstFree(ShadowTable, hash_load(load_key), 0) # -1
                          THEN load_count + 1 ELSE load_count
         /\ cam_loads' = cam_loads + 1
         /\ cam_inserted' =
                IF FirstFree(ShadowTable, hash_load(load_key), 0) # -1
                THEN [cam_inserted EXCEPT ![1 - active_buffer] =
                                              @ \cup {<<load_key, load_idx>>}]
                ELSE cam_inserted
         /\ UNCHANGED <<active_buffer, cam_commits>>
    ELSE UNCHANGED <<cam_0, cam_1, active_buffer, load_count, cam_loads,
                     cam_commits, cam_inserted>>

\* The keys the host may load next: a symbol file gives each symbol one
\* index, so a key already in the table being built is not loaded again.
LoadableKeys ==
    IF cam_loads < MaxCamLoads
    THEN { k \in CamKeys : \A a \in 0..(HASH_SIZE - 1) :
                               ~(ShadowTable[a].valid /\ ShadowTable[a].key = k) }
    ELSE {}

\* The values the CSR block presents on the load interface and on commit
\* during one cycle (latency_histogram.sv:775-790, one-shot strobes): idle,
\* a load, or a commit.
CamHostInputs ==
    { [load_valid |-> FALSE, load_key |-> <<0, 0>>, load_idx |-> 0, commit |-> FALSE] }
    \cup { [load_valid |-> TRUE, load_key |-> k, load_idx |-> i, commit |-> FALSE] :
             k \in LoadableKeys, i \in CamIdxs }
    \cup { [load_valid |-> FALSE, load_key |-> <<0, 0>>, load_idx |-> 0, commit |-> TRUE] :
             c \in (IF cam_commits < MaxCamCommits THEN {1} ELSE {}) }

CamHostClk(h) == LoadCommitClk(h.load_valid, h.load_key, h.load_idx, h.commit)

\* The pairs <<key, index>> inserted into the map that is active, and into
\* the map being built.
ActiveInserted == cam_inserted[active_buffer]
ShadowInserted == cam_inserted[1 - active_buffer]

\* The result a set of inserted pairs calls for: a hit with the index the key
\* was inserted with, a miss for a key that was not inserted.
CalledFor(pairs, key) ==
    IF \E i \in CamIdxs : <<key, i>> \in pairs
    THEN CamHit(CHOOSE i \in CamIdxs : <<key, i>> \in pairs)
    ELSE CamMiss

InsertedResult(key) == CalledFor(ActiveInserted, key)

\* symtab_cam.sv:137-147
CamLkpIdle ==
    /\ lkp_state = "LKP_IDLE"
    /\ lkp_found' = FALSE
    /\ \E h \in CamHostInputs, lookup_valid \in BOOLEAN, lookup_key \in CamKeys :
         /\ CamHostClk(h)
         /\ IF lookup_valid
            THEN /\ lkp_key_reg' = lookup_key
                 /\ lkp_hash_base' = hash_lookup(lookup_key)
                 /\ lkp_probe_addr' = hash_lookup(lookup_key)
                 /\ lkp_probe_cnt' = 0
                 /\ lkp_state' = "LKP_PROBE"
                 /\ lkp_admissible' =
                        { MapLookup(ActiveTable, lookup_key),
                          MapLookup(IF h.commit THEN ShadowTable ELSE ActiveTable,
                                    lookup_key) }
                 /\ lkp_called_for' =
                        { CalledFor(ActiveInserted, lookup_key),
                          CalledFor(IF h.commit THEN ShadowInserted
                                    ELSE ActiveInserted, lookup_key) }
            ELSE /\ lookup_key = <<0, 1>>
                 /\ UNCHANGED <<lkp_key_reg, lkp_hash_base, lkp_probe_addr,
                                lkp_probe_cnt, lkp_state, lkp_admissible,
                                lkp_called_for>>
    /\ UNCHANGED lkp_result_idx
    /\ UNCHANGED camRest

\* symtab_cam.sv:149-183.  The buffer is selected by active_buffer as it is
\* in this cycle, at every probe.
CamLkpProbe ==
    /\ lkp_state = "LKP_PROBE"
    /\ LET slot == ActiveTable[lkp_probe_addr]
       IN  IF slot.valid /\ slot.key = lkp_key_reg
           THEN /\ lkp_found' = TRUE
                /\ lkp_result_idx' = slot.value
                /\ lkp_state' = "LKP_DONE"
                /\ UNCHANGED <<lkp_probe_addr, lkp_probe_cnt>>
           ELSE IF ~slot.valid \/ lkp_probe_cnt >= MAX_PROBES - 1
           THEN /\ lkp_found' = FALSE
                /\ lkp_state' = "LKP_DONE"
                /\ UNCHANGED <<lkp_result_idx, lkp_probe_addr, lkp_probe_cnt>>
           ELSE /\ lkp_probe_addr' = (lkp_probe_addr + 1) % HASH_SIZE
                /\ lkp_probe_cnt' = lkp_probe_cnt + 1
                /\ UNCHANGED <<lkp_found, lkp_result_idx, lkp_state>>
    /\ \E h \in CamHostInputs :
         /\ CamHostClk(h)
         /\ lkp_admissible' = IF h.commit /\ lkp_state' = "LKP_PROBE"
                              THEN lkp_admissible
                                   \cup {MapLookup(ShadowTable, lkp_key_reg)}
                              ELSE lkp_admissible
         /\ lkp_called_for' = IF h.commit /\ lkp_state' = "LKP_PROBE"
                              THEN lkp_called_for
                                   \cup {CalledFor(ShadowInserted, lkp_key_reg)}
                              ELSE lkp_called_for
    /\ UNCHANGED <<lkp_key_reg, lkp_hash_base>>
    /\ UNCHANGED camRest

\* symtab_cam.sv:185-187
CamLkpDone ==
    /\ lkp_state = "LKP_DONE"
    /\ lkp_state' = "LKP_IDLE"
    /\ \E h \in CamHostInputs : CamHostClk(h)
    /\ UNCHANGED <<lkp_key_reg, lkp_hash_base, lkp_probe_cnt, lkp_probe_addr,
                   lkp_found, lkp_result_idx, lkp_admissible, lkp_called_for>>
    /\ UNCHANGED camRest

\* symtab_cam.sv:269-270, the result on the lookup interface
lookup_result == IF lkp_found THEN CamHit(lkp_result_idx) ELSE CamMiss

\* symtab_cam.sv:127-134 and 197-206
CamInit ==
    /\ cam_0 = EmptyTable
    /\ cam_1 = EmptyTable
    /\ active_buffer = 0
    /\ lkp_state = "LKP_IDLE"
    /\ lkp_key_reg = <<0, 0>>
    /\ lkp_hash_base = 0
    /\ lkp_probe_cnt = 0
    /\ lkp_probe_addr = 0
    /\ lkp_found = FALSE
    /\ lkp_result_idx = 0
    /\ load_count = 0
    /\ lkp_admissible = {}
    /\ lkp_called_for = {}
    /\ cam_loads = 0
    /\ cam_commits = 0
    /\ cam_inserted = [b \in {0, 1} |-> {}]

(***************************************************************************)
(* pcie_dma (dma_pcie_ep.sv:359-681), the module t2t_top instantiates as   *)
(* u_dma, with the ring registers of csr_block and the host's consumer     *)
(* (Device::init_dma_ring and Device::poll of t2t_ctl.cpp).                *)
(*                                                                         *)
(* A decision record is represented by the arrival number of the decision  *)
(* it carries (1, 2, ...).  The record is written to host memory in two    *)
(* 32-byte halves, "lo" and "hi"; a half in host memory holds the arrival  *)
(* number of the record it was taken from, 0 for the zero-filled page.     *)
(* The MSI-X registers of pcie_dma (records_since_irq, irq_pending,        *)
(* msix_irq, stat_irqs) are written but never read by the logic modelled   *)
(* here and are left out.                                                  *)
(***************************************************************************)
RING_DEPTH == 2 ^ IDX_WIDTH
FIFO_DEPTH == 2 ^ FIFO_PTR_WIDTH
\* registers.md:216, the ring length the host passes to init_dma_ring
DMA_RING_ENTRIES == RING_DEPTH

Halves == {"lo", "hi"}
ZeroSlot == [lo |-> 0, hi |-> 0]

\* bitwise AND of two naturals
RECURSIVE BitAnd(_, _)
BitAnd(a, b) == IF a = 0 \/ b = 0 THEN 0
                ELSE ((a % 2) * (b % 2)) + (2 * BitAnd(a \div 2, b \div 2))

\* dma_pcie_ep.sv:495-502.  fifo_wr_ptr + 1 is evaluated in 32 bits, so the
\* sum is not truncated to the pointer width before the comparison.
\* A FIFO output that presents the entry behind the read pointer, the one
\* popped last, instead of the oldest.
fifo_data_popped == input_fifo[(fifo_rd_ptr + FIFO_DEPTH - 1) % FIFO_DEPTH]
fifo_data_out == input_fifo[fifo_rd_ptr]
fifo_empty == fifo_wr_ptr = fifo_rd_ptr
fifo_full == (fifo_wr_ptr + 1) = fifo_rd_ptr
fifo_push == record_valid /\ ~fifo_full /\ cfg_enable
fifo_data_in == record_in
record_ready == ~fifo_full /\ cfg_enable

\* dma_pcie_ep.sv:518-526.  The AND is computed in 32 bits and truncated to
\* IDX_WIDTH bits by the assignment; cfg_ring_size - 1 is all ones when
\* cfg_ring_size is 0.
next_prod_idx == BitAnd((prod_idx + 1) % RING_DEPTH,
                        (cfg_ring_size + RING_DEPTH - 1) % RING_DEPTH)
\* A full test that never reports the ring full.
ring_full_never == FALSE
ring_full == next_prod_idx = cons_idx_sync
ring_empty == prod_idx = cons_idx_sync
dma_addr == prod_idx

\* dma_pcie_ep.sv:533-558, the record built from the head of the input FIFO
record_packed == fifo_data_out

\* dma_pcie_ep.sv:479-493, the input FIFO's clock edge
FifoClk ==
    /\ input_fifo' = IF fifo_push /\ ~fifo_full
                     THEN [input_fifo EXCEPT ![fifo_wr_ptr] = fifo_data_in]
                     ELSE input_fifo
    /\ fifo_wr_ptr' = IF fifo_push /\ ~fifo_full
                      THEN (fifo_wr_ptr + 1) % FIFO_DEPTH ELSE fifo_wr_ptr
    /\ fifo_rd_ptr' = IF fifo_pop /\ ~fifo_empty
                      THEN (fifo_rd_ptr + 1) % FIFO_DEPTH ELSE fifo_rd_ptr

\* dma_pcie_ep.sv:509-515
ConsSyncClk == cons_idx_sync' = status_cons_idx

\* dma_pcie_ep.sv:661-679.  drop_counted collects the records on record_in
\* at the edges that count a drop.
StatClk ==
    /\ stat_records_dma' = IF dma_state = "DMA_UPDATE_IDX"
                           THEN stat_records_dma + 1 ELSE stat_records_dma
    /\ stat_drops' = IF record_valid /\ ring_full
                     THEN stat_drops + 1 ELSE stat_drops
    /\ drop_counted' = IF record_valid /\ ring_full
                       THEN drop_counted \cup {record_in} ELSE drop_counted

\* The Avalon-MM slave behind dma_pcie_ep.sv:379-386: a write beat is taken
\* at a clock edge when pcie_write is driven and pcie_waitrequest is low,
\* and lands in the host's ring memory.
avalon_write_taken == pcie_write /\ ~pcie_waitrequest
AvalonSlaveClk ==
    host_ring' = IF avalon_write_taken
                 THEN [host_ring EXCEPT ![pcie_address.slot][pcie_address.half]
                                           = pcie_writedata]
                 ELSE host_ring

\* The values presented on the inputs of pcie_dma during the next cycle.
\* Records are numbered as they are taken (record_valid and record_ready,
\* dma_pcie_ep.sv:369-371), so record_in moves on to the next arrival
\* number only after a push; pcie_waitrequest is sampled only while a write is driven
\* or in the two write states and is held low otherwise.
DmaInputs ==
    /\ record_in' = IF fifo_push THEN record_in + 1 ELSE record_in
    /\ record_valid' \in IF record_in' <= MaxRecords /\ stat_drops' < MaxDrops
                        THEN BOOLEAN ELSE {FALSE}
    /\ pcie_waitrequest' \in
          IF pcie_write' \/ dma_state' \in {"DMA_WRITE_0", "DMA_WRITE_1"}
          THEN BOOLEAN ELSE {FALSE}

\* The halves taken by the slave for the record the engine is working on.
WrDoneClk ==
    wr_done' = IF dma_state = "DMA_BUILD" THEN ZeroSlot
               ELSE IF avalon_write_taken
                    THEN [wr_done EXCEPT ![pcie_address.half] = pcie_writedata]
                    ELSE wr_done

\* The always_ff blocks of pcie_dma other than the state machine, and what
\* no clock edge of pcie_dma changes.
DmaClk ==
    /\ FifoClk /\ ConsSyncClk /\ StatClk /\ AvalonSlaveClk /\ WrDoneClk
    /\ DmaInputs
    /\ UNCHANGED <<cfg_ring_size, status_cons_idx, hostVars, cfgVars, dmaRest>>

\* dma_pcie_ep.sv:579-581 and 584-593
DmaIdle ==
    /\ dma_state = "DMA_IDLE"
    /\ fifo_pop' = FALSE
    /\ pcie_write' = FALSE
    /\ dma_state' = IF ~fifo_empty /\ ~ring_full /\ cfg_enable
                    THEN "DMA_BUILD" ELSE "DMA_IDLE"
    /\ UNCHANGED <<prod_idx, pcie_address, pcie_writedata, pub_last>>
    /\ DmaClk

\* dma_pcie_ep.sv:579-581 and 595-598
DmaBuild ==
    /\ dma_state = "DMA_BUILD"
    /\ fifo_pop' = FALSE
    /\ pcie_write' = FALSE
    /\ dma_state' = "DMA_WRITE_0"
    /\ UNCHANGED <<prod_idx, pcie_address, pcie_writedata, pub_last>>
    /\ DmaClk

\* dma_pcie_ep.sv:579-581 and 600-610
DmaWrite0 ==
    /\ dma_state = "DMA_WRITE_0"
    /\ fifo_pop' = FALSE
    /\ pcie_address' = [slot |-> dma_addr, half |-> "lo"]
    /\ pcie_writedata' = record_packed
    /\ pcie_write' = TRUE
    /\ dma_state' = IF ~pcie_waitrequest THEN "DMA_WRITE_1" ELSE "DMA_WRITE_0"
    /\ UNCHANGED <<prod_idx, pub_last>>
    /\ DmaClk

\* dma_pcie_ep.sv:579-581 and 612-623
DmaWrite1 ==
    /\ dma_state = "DMA_WRITE_1"
    /\ pcie_address' = [slot |-> dma_addr, half |-> "hi"]
    /\ pcie_writedata' = record_packed
    /\ pcie_write' = TRUE
    /\ IF ~pcie_waitrequest
       THEN dma_state' = "DMA_UPDATE_IDX" /\ fifo_pop' = TRUE
       ELSE dma_state' = "DMA_WRITE_1" /\ fifo_pop' = FALSE
    /\ UNCHANGED <<prod_idx, pub_last>>
    /\ DmaClk

\* dma_pcie_ep.sv:579-581 and 625-637.  pub_last remembers, half by half,
\* the record last written to a slot that the index then covered.
DmaUpdateIdx ==
    /\ dma_state = "DMA_UPDATE_IDX"
    /\ fifo_pop' = FALSE
    /\ pcie_write' = FALSE
    /\ prod_idx' = next_prod_idx
    /\ dma_state' = "DMA_IDLE"
    /\ UNCHANGED <<pcie_address, pcie_writedata>>
    /\ DmaClk
    /\ pub_last' = [h \in Halves |-> IF wr_done'[h] # 0 THEN wr_done'[h]
                                      ELSE pub_last[h]]

\* latency_histogram.sv:757 and 890: the host stops the pipeline
\* (t2t_ctl.cpp:569-575 with enable cleared).
CsrClearCtrl ==
    /\ cfg_enable
    /\ cfg_enable' = FALSE
    /\ UNCHANGED <<riskVars, riskRest, cfg_kill, cfg_token_max, cfg_token_rate,
                   cfg_price_band_bps, cfg_position_limit, cfg_stale_usec,
                   ref_price_mem>>

\* t2t_ctl.cpp:730-732, the head of Device::poll: read the PROD_IDX register
\* (latency_histogram.sv:845) and the cached consumer index.
PollStart ==
    /\ poll_pc = "POLL_IDLE"
    /\ poll_prod' = prod_idx
    /\ poll_cons' = consumer_idx_
    /\ poll_count' = 0
    /\ poll_pc' = "POLL_LOOP"
    /\ UNCHANGED <<consumer_idx_, ring_entries_, consumed, status_cons_idx,
                   cfg_ring_size, dmaRegs, cfgVars, dmaRest>>

\* t2t_ctl.cpp:734-742, one iteration of the loop of Device::poll
PollLoop ==
    /\ poll_pc = "POLL_LOOP"
    /\ poll_cons # poll_prod
    /\ consumed' = consumed + 1
    /\ poll_cons' = BitAnd((poll_cons + 1) % RING_DEPTH,
                           (ring_entries_ + RING_DEPTH - 1) % RING_DEPTH)
    /\ poll_count' = poll_count + 1
    /\ UNCHANGED <<poll_pc, poll_prod, consumer_idx_, ring_entries_,
                   status_cons_idx, cfg_ring_size, dmaRegs, cfgVars, dmaRest>>

\* t2t_ctl.cpp:734 and 744-749, the loop exit of Device::poll: store the
\* consumer index and write it to CONS_IDX_SHADOW
\* (latency_histogram.sv:797 and 913).  The locals prod, cons and count end
\* with the call and are returned to their idle values.
PollEnd ==
    /\ poll_pc = "POLL_LOOP"
    /\ poll_cons = poll_prod
    /\ IF poll_count > 0
       THEN consumer_idx_' = poll_cons /\ status_cons_idx' = poll_cons
       ELSE UNCHANGED <<consumer_idx_, status_cons_idx>>
    /\ poll_pc' = "POLL_IDLE"
    /\ poll_prod' = 0 /\ poll_cons' = 0 /\ poll_count' = 0
    /\ UNCHANGED <<ring_entries_, consumed, cfg_ring_size, dmaRegs, cfgVars,
                   dmaRest>>

\* dma_pcie_ep.sv:481-482, 511, 566-577 and 663-664 (reset), the ring
\* registers as Device::init_dma_ring leaves them (t2t_ctl.cpp:717-724,
\* latency_histogram.sv:796-797 and 910) and the zero-filled ring memory.
DmaInit ==
    /\ dma_state = "DMA_IDLE"
    /\ prod_idx = 0
    /\ cons_idx_sync = 0
    /\ fifo_wr_ptr = 0
    /\ fifo_rd_ptr = 0
    /\ input_fifo = [a \in 0..(FIFO_DEPTH - 1) |-> 0]
    /\ fifo_pop = FALSE
    /\ pcie_write = FALSE
    /\ pcie_address = [slot |-> 0, half |-> "lo"]
    /\ pcie_writedata = 0
    /\ stat_records_dma = 0
    /\ stat_drops = 0
    /\ record_valid = FALSE
    /\ record_in = 1
    /\ pcie_waitrequest = FALSE
    /\ cfg_ring_size = DMA_RING_ENTRIES % RING_DEPTH
    /\ status_cons_idx = 0
    /\ ring_entries_ = DMA_RING_ENTRIES
    /\ consumer_idx_ = 0
    /\ host_ring = [s \in 0..(RING_DEPTH - 1) |-> ZeroSlot]
    /\ poll_pc = "POLL_IDLE"
    /\ poll_prod = 0
    /\ poll_cons = 0
    /\ poll_count = 0
    /\ consumed = 0
    /\ wr_done = ZeroSlot
    /\ pub_last = ZeroSlot
    /\ drop_counted = {}

RiskInit ==
    /\ risk_state = "RISK_IDLE"
    /\ event_reg = ZeroEvent
    /\ decision_ts = 0
    /\ accept \in BOOLEAN
    /\ reject_reason \in PowerUpReasons
    /\ decision_reg = ZeroDecision
    /\ decision_pending = FALSE
    /\ token_bucket = 0
    /\ token_replenish_cnt = 0
    /\ ref_price_reg = 0
    /\ risk_decided = 0
    /\ kill_age = 0
    /\ timestamp_cnt = 0
    /\ event_valid = FALSE
    /\ event_in = ZeroEvent
    /\ decision_ready = FALSE

\* latency_histogram.sv:721-727, the registers after reset (the token rate
\* register resets to 32'h000003E8: bucket size 0, replenish amount 1000);
\* the position limit and the reference price are scaled to the small
\* prices and quantities of EventInputs, and the stale threshold (100000 us
\* after reset) to 1 us, which like the reset value exceeds every data age
\* of the explored window.
CfgInit ==
    /\ cfg_enable = FALSE
    /\ cfg_kill = FALSE
    /\ cfg_token_max = 0
    /\ cfg_token_rate = 1000
    /\ cfg_price_band_bps = 500
    /\ cfg_position_limit = 3
    /\ cfg_stale_usec = 1
    /\ ref_price_mem = [i \in {0} |-> 100]

(***************************************************************************)
(* itch_splitter.sv                                                        *)
(***************************************************************************)
\* itch_splitter.sv:157-181
get_msg_length(msg_type) ==
    CASE msg_type = 83 -> 12   [] msg_type = 82 -> 39
      [] msg_type = 72 -> 25   [] msg_type = 89 -> 20
      [] msg_type = 76 -> 26   [] msg_type = 86 -> 35
      [] msg_type = 87 -> 12   [] msg_type = 75 -> 28
      [] msg_type = 65 -> 36   [] msg_type = 70 -> 40
      [] msg_type = 69 -> 31   [] msg_type = 67 -> 36
      [] msg_type = 88 -> 23   [] msg_type = 68 -> 19
      [] msg_type = 85 -> 35   [] msg_type = 80 -> 44
      [] msg_type = 81 -> 40   [] msg_type = 66 -> 19
      [] msg_type = 73 -> 50   [] msg_type = 78 -> 20
      [] OTHER -> 0

\* itch_splitter.sv:139-143, the bytes of the registered input word; the
\* word is held as the sequence of its KEEP_WIDTH bytes, lowest lane first.
input_bytes == [i \in 0..(KEEP_WIDTH - 1) |-> tdata_reg[i + 1]]

\* itch_splitter.sv:146-151; tkeep is held as the set of its asserted lanes.
valid_byte_count == Cardinality(tkeep_reg)

\* itch_splitter.sv:225 and 246, msg_buffer[buf_wr_ptr] <= b.  The buffer
\* has no reset: it is held as the function from the entries written so far
\* to their bytes, so that no value is given to an entry never written.
BufferWrite(b) ==
    [i \in (DOMAIN msg_buffer) \cup {buf_wr_ptr} |->
        IF i = buf_wr_ptr THEN b ELSE msg_buffer[i]]

\* itch_splitter.sv:330
msg_ready == split_state = "SPLIT_EMIT"

\* itch_splitter.sv:342
m_axis_tvalid == msg_ready

\* itch_splitter.sv:345
s_axis_tready ==
    split_state # "SPLIT_EMIT" /\ buf_wr_ptr < MSG_BUF_DEPTH - KEEP_WIDTH

\* itch_splitter.sv:269, 273-279: {msg_buffer[1], msg_buffer[2],
\* msg_buffer[3], msg_buffer[4]}, the sequence number of the message in the
\* buffer (big-endian).  The input bytes of the model keep it far below
\* 2^32, so that the 32-bit sum of line 279 does not wrap.
msg_buffer_seq ==
    ((msg_buffer[1] * 256 + msg_buffer[2]) * 256 + msg_buffer[3]) * 256
    + msg_buffer[4]

\* itch_splitter.sv:321-328 and 336-337: the bytes of m_axis_tdata that
\* m_axis_tkeep = msg_bytes_collected declares valid.
msg_data_out == [i \in 1..msg_bytes_collected |-> msg_buffer[i - 1]]

\* itch_splitter.sv:339-341: the concatenation {cur_seq, cur_msg_type,
\* cur_msg_len, stale_latch, seq_gap_detected, seq_dupe_detected, 5'b0,
\* cur_ingress_ts} has 120 bits and the port 96 (line 42), so the upper 24
\* bits of cur_seq are cut off.  The 12 bytes of the port, byte 0 = bits 7:0:
\* bytes 0..7 the timestamp, byte 8 the flags, byte 9 the length, byte 10 the
\* type and byte 11 the low byte of cur_seq.
m_axis_tuser ==
    LEBytes(cur_ingress_ts, 8)
    \o << (IF stale_latch THEN 128 ELSE 0)
            + (IF seq_gap_detected THEN 64 ELSE 0)
            + (IF seq_dupe_detected THEN 32 ELSE 0),
          cur_msg_len, cur_msg_type, cur_seq % 256 >>

\* A frame is handed over to the decoder in this cycle
\* (itch_splitter.sv:359).
frame_handover == m_axis_tvalid /\ m_axis_tready

\* The parser's side of the input stream.  A beat is what the source drives
\* on s_axis_* during a cycle; tuser carries bit 0 (is_valid for the
\* splitter, line 212) and bits 71:8 (the ingress timestamp, line 213).
IdleBeat ==
    [tvalid |-> FALSE, tdata |-> [i \in 1..KEEP_WIDTH |-> 0], tkeep |-> {},
     tlast |-> FALSE, tuser |-> [is_valid |-> FALSE, ingress_ts |-> 0]]

Beat(data, nbytes, last) ==
    [tvalid |-> TRUE, tdata |-> data, tkeep |-> 0..(nbytes - 1),
     tlast |-> last, tuser |-> [is_valid |-> TRUE, ingress_ts |-> 1]]

\* A System Event message ('S', 12 bytes) with sequence number s at bytes
\* 1..4 (big-endian) and zeros in its other fields.
SystemEventMsg(s) == <<83, 0, 0, 0, s, 0, 0, 0, 0, 0, 0, 0>>

\* The beats of packets that hold one System Event message with a sequence
\* number of 1..MaxSeq on the 8-byte stream: the first eight bytes of the
\* message, and its last four bytes, which end the packet.
BeatInputs ==
    { Beat(SubSeq(SystemEventMsg(s), 1, 8), 8, FALSE) : s \in 1..MaxSeq }
    \cup { Beat(<<0, 0, 0, 0, 0, 0, 0, 0>>, 4, TRUE) }

\* itch_splitter.sv:122-136, the input registers, which load whenever
\* s_axis_tready is high, and the source, which keeps a beat that was not
\* taken and otherwise drives any beat or none.  The beats taken are
\* recorded up to MaxStreamBeats, and with them the frames handed over.
InputRegistrationOf(beats) ==
    /\ IF s_axis_tready
       THEN /\ tdata_reg' = s_axis.tdata
            /\ tkeep_reg' = s_axis.tkeep
            /\ tlast_reg' = s_axis.tlast
            /\ tuser_reg' = s_axis.tuser
            /\ tvalid_reg' = s_axis.tvalid
       ELSE UNCHANGED <<tdata_reg, tkeep_reg, tlast_reg, tuser_reg, tvalid_reg>>
    /\ IF s_axis.tvalid /\ ~s_axis_tready
       THEN s_axis' = s_axis
       ELSE s_axis' \in beats \cup {IdleBeat}
    /\ IF rx_overflow \/ ~(s_axis.tvalid /\ s_axis_tready)
       THEN UNCHANGED <<rx_beats, rx_overflow>>
       ELSE IF Len(rx_beats) < MaxStreamBeats
            THEN rx_beats' = Append(rx_beats, s_axis) /\ rx_overflow' = FALSE
            ELSE rx_beats' = <<>> /\ rx_overflow' = TRUE

\* itch_splitter.sv:353-371, the statistics counters, and the decoder's
\* side of the output: m_axis_tready is free until MaxFrames frames have
\* been taken.
StatisticsUpTo(max_frames) ==
    /\ stat_messages' = IF frame_handover THEN stat_messages + 1
                        ELSE stat_messages
    /\ stat_seq_gaps' = IF seq_gap_detected THEN stat_seq_gaps + 1
                        ELSE stat_seq_gaps
    /\ stat_seq_dupes' = IF seq_dupe_detected THEN stat_seq_dupes + 1
                         ELSE stat_seq_dupes
    /\ m_axis_tready' \in IF stat_messages' >= max_frames THEN {FALSE}
                          ELSE BOOLEAN
    /\ tx_frames' = IF frame_handover /\ ~rx_overflow
                    THEN Append(tx_frames, msg_data_out)
                    ELSE IF rx_overflow' THEN <<>> ELSE tx_frames

\* itch_splitter.sv:219-231, SPLIT_HEADER reads a type byte in this cycle
\* and get_msg_length does not know it.
unknown_type_byte ==
    /\ split_state = "SPLIT_HEADER"
    /\ tvalid_reg
    /\ byte_idx < valid_byte_count
    /\ get_msg_length(input_bytes[byte_idx]) = 0

\* The packet of an unknown type byte: it stays open until a beat with
\* tlast has been loaded into the input registers (itch_splitter.sv:129-135),
\* and the beats loaded until then belong to it.
UnknownPacket ==
    LET open == IF unknown_type_byte THEN ~tlast_reg ELSE unknown_pkt.open
    IN  unknown_pkt' =
            IF ~s_axis_tready
            THEN [open |-> open, reg |-> unknown_pkt.reg \/ unknown_type_byte]
            ELSE IF s_axis.tvalid
                 THEN [open |-> open /\ ~s_axis.tlast, reg |-> open]
                 ELSE [open |-> open, reg |-> FALSE]

\* The input registers with a source that drives the beats of BeatInputs,
\* and the statistics with a decoder that takes MaxFrames frames.
InputRegistration == InputRegistrationOf(BeatInputs)
Statistics == StatisticsUpTo(MaxFrames)

\* What every clock edge of the splitter does outside the state machine,
\* for a source that drives the given beats and a decoder that takes the
\* given number of frames.
SplitClkOf(beats, max_frames) ==
    /\ ~in_while_loop
    /\ InputRegistrationOf(beats)
    /\ StatisticsUpTo(max_frames)
    /\ UnknownPacket
    /\ UNCHANGED <<cfg_seq_check_en, cfg_expected_seq, in_while_loop>>
    /\ UNCHANGED splitRest

SplitClk == SplitClkOf(BeatInputs, MaxFrames)

\* itch_splitter.sv:202-216 and 307-312 (SPLIT_IDLE)
SplitIdleFsm ==
    /\ split_state = "SPLIT_IDLE"
    /\ seq_gap_detected' = FALSE
    /\ seq_dupe_detected' = FALSE
    /\ buf_wr_ptr' = 0
    /\ msg_bytes_collected' = 0
    /\ byte_idx' = 0
    /\ IF tvalid_reg /\ tuser_reg.is_valid
       THEN /\ cur_ingress_ts' = tuser_reg.ingress_ts
            /\ split_state' = "SPLIT_HEADER"
       ELSE UNCHANGED <<cur_ingress_ts, split_state>>
    /\ expected_seq' = IF cfg_seq_check_en /\ expected_seq = 0
                       THEN cfg_expected_seq ELSE expected_seq
    /\ UNCHANGED <<msg_buffer, cur_msg_type, cur_msg_len, cur_seq,
                   stale_latch, gap_expected>>

\* itch_splitter.sv:202-204 and 218-239 (SPLIT_HEADER)
SplitHeaderFsm ==
    /\ split_state = "SPLIT_HEADER"
    /\ seq_gap_detected' = FALSE
    /\ seq_dupe_detected' = FALSE
    /\ IF tvalid_reg /\ byte_idx < valid_byte_count
       THEN /\ cur_msg_type' = input_bytes[byte_idx]
            /\ cur_msg_len' = get_msg_length(input_bytes[byte_idx])
            /\ msg_buffer' = BufferWrite(input_bytes[byte_idx])
            /\ buf_wr_ptr' = (buf_wr_ptr + 1) % MSG_BUF_DEPTH
            /\ msg_bytes_collected' = 1
            /\ byte_idx' = (byte_idx + 1) % 16
            /\ split_state' = IF get_msg_length(input_bytes[byte_idx]) = 0
                              THEN "SPLIT_IDLE" ELSE "SPLIT_BODY"
       ELSE /\ split_state' = IF tlast_reg THEN "SPLIT_IDLE"
                              ELSE split_state
            /\ UNCHANGED <<cur_msg_type, cur_msg_len, msg_buffer,
                           buf_wr_ptr, msg_bytes_collected, byte_idx>>
    /\ UNCHANGED <<cur_seq, cur_ingress_ts, expected_seq, stale_latch,
                   gap_expected>>

\* itch_splitter.sv:242-245, the while loop is entered in this cycle
body_loop_entered ==
    /\ tvalid_reg
    /\ byte_idx < valid_byte_count
    /\ msg_bytes_collected < cur_msg_len

\* itch_splitter.sv:202-204 and 241-264 (SPLIT_BODY) in a cycle in which
\* the while loop is not entered.
SplitBodyFsm ==
    /\ split_state = "SPLIT_BODY"
    /\ ~body_loop_entered
    /\ seq_gap_detected' = FALSE
    /\ seq_dupe_detected' = FALSE
    /\ IF ~tvalid_reg
       THEN UNCHANGED <<split_state, byte_idx>>
       ELSE IF msg_bytes_collected >= cur_msg_len
            THEN split_state' = "SPLIT_EMIT" /\ byte_idx' = byte_idx
            ELSE IF byte_idx >= valid_byte_count
                 THEN /\ byte_idx' = 0
                      /\ split_state' = IF tlast_reg THEN "SPLIT_IDLE"
                                        ELSE split_state
                 ELSE UNCHANGED <<split_state, byte_idx>>
    /\ UNCHANGED <<msg_buffer, buf_wr_ptr, msg_bytes_collected,
                   cur_msg_type, cur_msg_len, cur_seq, cur_ingress_ts,
                   expected_seq, stale_latch, gap_expected>>

\* itch_splitter.sv:244-250, a cycle in which the while loop is entered.
\* The body assigns byte_idx and msg_bytes_collected with non-blocking
\* assignments, so the condition reads the same values in every round and
\* the loop has no last round: the simulator stays in it and no clock edge
\* of the module completes any more.
SplitBodyLoopForever ==
    /\ split_state = "SPLIT_BODY"
    /\ body_loop_entered
    /\ ~in_while_loop
    /\ in_while_loop' = TRUE
    /\ UNCHANGED <<splitRegs, splitInputs, cfg_seq_check_en,
                   cfg_expected_seq, splitHistory>>
    /\ UNCHANGED splitRest

\* The same cycle where the loop is cut off after some number of rounds:
\* every round schedules the same four assignments, so their effect is that
\* of one round, after which neither branch of lines 252-263 is taken (both
\* conditions are false whenever the loop's is true).
SplitBodyLoopOnceFsm ==
    /\ split_state = "SPLIT_BODY"
    /\ body_loop_entered
    /\ seq_gap_detected' = FALSE
    /\ seq_dupe_detected' = FALSE
    /\ msg_buffer' = BufferWrite(input_bytes[byte_idx])
    /\ buf_wr_ptr' = (buf_wr_ptr + 1) % MSG_BUF_DEPTH
    /\ msg_bytes_collected' = (msg_bytes_collected + 1) % 256
    /\ byte_idx' = (byte_idx + 1) % 16
    /\ UNCHANGED <<split_state, cur_msg_type, cur_msg_len, cur_seq,
                   cur_ingress_ts, expected_seq, stale_latch, gap_expected>>

\* itch_splitter.sv:202-204 and 266-291 (SPLIT_EMIT).  gap_expected records
\* the value expected_seq takes at a gap, until a message arrives that is
\* not the expected one.
SplitEmitFsm ==
    /\ split_state = "SPLIT_EMIT"
    /\ IF m_axis_tready \/ ~m_axis_tvalid
       THEN /\ cur_seq' = msg_buffer_seq
            /\ seq_gap_detected' =
                   (cfg_seq_check_en /\ msg_buffer_seq > expected_seq)
            /\ stale_latch' =
                   (stale_latch
                    \/ (cfg_seq_check_en /\ msg_buffer_seq > expected_seq))
            /\ seq_dupe_detected' =
                   (cfg_seq_check_en /\ msg_buffer_seq < expected_seq)
            /\ expected_seq' = IF cfg_seq_check_en THEN msg_buffer_seq + 1
                               ELSE expected_seq
            /\ gap_expected' =
                   IF ~cfg_seq_check_en THEN gap_expected
                   ELSE IF msg_buffer_seq > expected_seq
                        THEN msg_buffer_seq + 1
                        ELSE IF msg_buffer_seq < expected_seq THEN 0
                             ELSE gap_expected
            /\ IF byte_idx < valid_byte_count /\ ~tlast_reg
               THEN /\ buf_wr_ptr' = 0
                    /\ msg_bytes_collected' = 0
                    /\ split_state' = "SPLIT_HEADER"
               ELSE /\ split_state' = "SPLIT_WAIT"
                    /\ UNCHANGED <<buf_wr_ptr, msg_bytes_collected>>
       ELSE /\ seq_gap_detected' = FALSE
            /\ seq_dupe_detected' = FALSE
            /\ UNCHANGED <<cur_seq, stale_latch, expected_seq, gap_expected,
                           buf_wr_ptr, msg_bytes_collected, split_state>>
    /\ UNCHANGED <<msg_buffer, cur_msg_type, cur_msg_len, cur_ingress_ts,
                   byte_idx>>

\* itch_splitter.sv:202-204 and 293-304 (SPLIT_WAIT)
SplitWaitFsm ==
    /\ split_state = "SPLIT_WAIT"
    /\ seq_gap_detected' = FALSE
    /\ seq_dupe_detected' = FALSE
    /\ buf_wr_ptr' = 0
    /\ msg_bytes_collected' = 0
    /\ byte_idx' = 0
    /\ split_state' = IF tlast_reg THEN "SPLIT_IDLE"
                      ELSE IF tvalid_reg THEN "SPLIT_HEADER"
                      ELSE split_state
    /\ UNCHANGED <<msg_buffer, cur_msg_type, cur_msg_len, cur_seq,
                   cur_ingress_ts, expected_seq, stale_latch, gap_expected>>

\* One clock edge of the splitter in each state of the state machine.
SplitIdle == SplitIdleFsm /\ SplitClk
SplitHeader == SplitHeaderFsm /\ SplitClk
SplitBody == SplitBodyFsm /\ SplitClk
SplitBodyLoopOnce == SplitBodyLoopOnceFsm /\ SplitClk
SplitEmit == SplitEmitFsm /\ SplitClk
SplitWait == SplitWaitFsm /\ SplitClk

\* itch_splitter.sv:125-129, 188-199 and 354-357, the registers after
\* reset.  msg_buffer has no reset and no entry written.
SplitReset ==
    /\ split_state = "SPLIT_IDLE"
    /\ msg_buffer = [i \in {} |-> 0]
    /\ buf_wr_ptr = 0
    /\ msg_bytes_collected = 0
    /\ cur_msg_type = 0
    /\ cur_msg_len = 0
    /\ cur_seq = 0
    /\ cur_ingress_ts = 0
    /\ expected_seq = 0
    /\ seq_gap_detected = FALSE
    /\ seq_dupe_detected = FALSE
    /\ stale_latch = FALSE
    /\ byte_idx = 0
    /\ tdata_reg = IdleBeat.tdata
    /\ tkeep_reg = {}
    /\ tlast_reg = FALSE
    /\ tuser_reg = IdleBeat.tuser
    /\ tvalid_reg = FALSE
    /\ stat_messages = 0
    /\ stat_seq_gaps = 0
    /\ stat_seq_dupes = 0
    /\ in_while_loop = FALSE
    /\ rx_beats = <<>>
    /\ rx_overflow = FALSE
    /\ tx_frames = <<>>
    /\ gap_expected = 0
    /\ unknown_pkt = [open |-> FALSE, reg |-> FALSE]

\* The splitter in reset state with an idle source, a stalled decoder and
\* sequence checking off.
SplitInit ==
    /\ SplitReset
    /\ s_axis = IdleBeat
    /\ m_axis_tready = FALSE
    /\ cfg_seq_check_en = FALSE
    /\ cfg_expected_seq = 0

(***************************************************************************)
(* book_tob.sv: top-of-book builder.  One action per state of the state    *)
(* machine; each action is a whole clock edge: the state machine           *)
(* (196-410), the BRAM banks (131-152) and the conflict FIFO (170-187).    *)
(* A message is the record of the itch_msg_t fields the module reads.      *)
(***************************************************************************)
\* book_tob.sv:159-160
current_bank == msg_reg.symbol_idx % NUM_BANKS
current_addr == msg_reg.symbol_idx \div NUM_BANKS

\* book_tob.sv:54
BANK_SIZE == NUM_SYMBOLS \div NUM_BANKS

Banks == 0..(NUM_BANKS - 1)

\* book_tob.sv:163-164
bank_conflict ==
    /\ book_state \in {"BOOK_READ", "BOOK_PROCESS", "BOOK_WRITE"}
    /\ current_bank = last_bank

\* book_tob.sv:63-72, an entry with every bit clear
ZeroEntry == [bid_px |-> 0, bid_qty |-> 0, ask_px |-> 0, ask_qty |-> 0,
              last_update_ts |-> 0, last_trade_px |-> 0, last_trade_qty |-> 0,
              valid |-> FALSE]

\* itch_msg_t with every bit clear (book_tob.sv:199)
ZeroMsg == [msg_type |-> "0", side |-> "SIDE_BID", price |-> 0, qty |-> 0,
            symbol_idx |-> 0, symbol_valid |-> FALSE, is_book_update |-> FALSE,
            decode_ts |-> 0]

\* book_event_t with every bit clear (book_tob.sv:204)
ZeroBookEvent ==
    [symbol_idx |-> 0, bid_px |-> 0, bid_qty |-> 0, ask_px |-> 0,
     ask_qty |-> 0, last_update_ts |-> 0, valid |-> FALSE,
     last_trade_px |-> 0, last_trade_qty |-> 0, trade_occurred |-> FALSE,
     trigger_msg_type |-> "0"]

\* The entry stored for a symbol index.
StoredEntry(idx) == bram_mem[idx % NUM_BANKS][idx \div NUM_BANKS]

\* book_tob.sv:186-187
conflict_fifo_empty == conflict_fifo = <<>>
conflict_fifo_full == Len(conflict_fifo) = 15

\* book_tob.sv:402
book_msg_ready ==
    /\ book_state = "BOOK_IDLE"
    /\ ~msg_pending
    /\ ~conflict_fifo_full
    /\ cfg_enable

\* book_tob.sv:399
book_event_valid == event_pending /\ book_state \in {"BOOK_EMIT", "BOOK_IDLE"}

\* book_tob.sv:136-143, the BRAM banks for one clock edge: an enabled bank
\* writes bram_wr_data when bram_we is set and reads the word that was
\* stored before the edge.
BramClk ==
    /\ bram_mem' = [b \in Banks |->
                      IF bram_en[b] /\ bram_we[b]
                      THEN [bram_mem[b] EXCEPT ![bram_addr[b]] = bram_wr_data[b]]
                      ELSE bram_mem[b]]
    /\ bram_rd_data' = [b \in Banks |->
                          IF bram_en[b] THEN bram_mem[b][bram_addr[b]]
                          ELSE bram_rd_data[b]]

\* book_tob.sv:170-184, the conflict FIFO for one clock edge
ConflictFifoClk ==
    LET pushed == IF conflict_fifo_push /\ ~conflict_fifo_full
                  THEN Append(conflict_fifo, msg_reg) ELSE conflict_fifo
    IN  conflict_fifo' = IF conflict_fifo_pop /\ ~conflict_fifo_empty
                         THEN Tail(pushed) ELSE pushed

\* book_tob.sv:212-219, the defaults assigned at every edge; a later
\* assignment of the same edge wins.
AllBanksOff == [b \in Banks |-> FALSE]

\* book_tob.sv:268-353, the entry BOOK_PROCESS assigns to updated_entry: the
\* entry in current_entry with the time stamp and the valid bit set, changed
\* as the message type says.
UpdatedEntry(cur, msg) ==
    LET base == [cur EXCEPT !.last_update_ts = msg.decode_ts, !.valid = TRUE]
        reduced(q) == IF q > msg.qty THEN q - msg.qty ELSE 0
    IN  CASE msg.msg_type \in {"A", "F"} ->
               IF msg.side = "SIDE_BID"
               THEN IF ~cur.valid \/ msg.price > cur.bid_px \/ cur.bid_qty = 0
                    THEN [base EXCEPT !.bid_px = msg.price, !.bid_qty = msg.qty]
                    ELSE base
               ELSE IF ~cur.valid \/ msg.price < cur.ask_px \/ cur.ask_qty = 0
                    THEN [base EXCEPT !.ask_px = msg.price, !.ask_qty = msg.qty]
                    ELSE base
          [] msg.msg_type \in {"E", "C", "X"} ->
               IF msg.side = "SIDE_BID"
               THEN [base EXCEPT !.bid_qty = reduced(cur.bid_qty)]
               ELSE [base EXCEPT !.ask_qty = reduced(cur.ask_qty)]
          [] msg.msg_type = "D" ->
               IF msg.side = "SIDE_BID"
               THEN [base EXCEPT !.bid_qty = 0]
               ELSE [base EXCEPT !.ask_qty = 0]
          [] msg.msg_type = "U" ->
               IF msg.side = "SIDE_BID"
               THEN [base EXCEPT !.bid_px = msg.price, !.bid_qty = msg.qty]
               ELSE [base EXCEPT !.ask_px = msg.price, !.ask_qty = msg.qty]
          [] msg.msg_type = "P" ->
               [base EXCEPT !.last_trade_px = msg.price,
                            !.last_trade_qty = msg.qty]
          [] OTHER -> base

\* The registers every state leaves alone unless it says otherwise.
bookEntryRegs == <<current_entry, updated_entry>>
bookBramRegs == <<bram_addr, bram_wr_data>>

\* BOOK_IDLE without the test of symbol_valid at line 231: every
\* book-affecting message goes to BOOK_READ.
BookIdleFsmUpTo_anysymbol(msgs, max_msgs) ==
    /\ book_state = "BOOK_IDLE"
    /\ event_pending' = FALSE
    /\ bram_en' = AllBanksOff
    /\ bram_we' = AllBanksOff
    /\ conflict_fifo_push' = FALSE
    /\ \E msg_valid \in BOOLEAN, msg_in \in msgs :
         IF cfg_enable /\ msg_valid /\ ~msg_pending /\ book_msgs < max_msgs
         THEN /\ msg_reg' = msg_in
              /\ msg_pending' = TRUE
              /\ book_state' = IF msg_in.is_book_update
                               THEN "BOOK_READ" ELSE "BOOK_EMIT"
              /\ conflict_fifo_pop' = FALSE
              /\ book_msgs' = book_msgs + 1
         ELSE /\ ~msg_valid
              /\ msg_in = CHOOSE m \in msgs : TRUE
              /\ UNCHANGED book_msgs
              /\ IF ~conflict_fifo_empty
                 THEN /\ msg_reg' = Head(conflict_fifo)
                      /\ msg_pending' = TRUE
                      /\ conflict_fifo_pop' = TRUE
                      /\ book_state' = "BOOK_READ"
                 ELSE /\ conflict_fifo_pop' = FALSE
                      /\ UNCHANGED <<msg_reg, msg_pending, book_state>>
    /\ UNCHANGED <<last_bank, bookEntryRegs, bookBramRegs, book_event_reg>>

\* book_tob.sv:222-246.  The decoder presents msg_valid and msg_in, drawn
\* from msgs while fewer than max_msgs messages were taken.
BookIdleFsmUpTo(msgs, max_msgs) ==
    /\ book_state = "BOOK_IDLE"
    /\ event_pending' = FALSE
    /\ bram_en' = AllBanksOff
    /\ bram_we' = AllBanksOff
    /\ conflict_fifo_push' = FALSE
    /\ \E msg_valid \in BOOLEAN, msg_in \in msgs :
         IF cfg_enable /\ msg_valid /\ ~msg_pending /\ book_msgs < max_msgs
         THEN /\ msg_reg' = msg_in
              /\ msg_pending' = TRUE
              /\ book_state' = IF msg_in.symbol_valid /\ msg_in.is_book_update
                               THEN "BOOK_READ" ELSE "BOOK_EMIT"
              /\ conflict_fifo_pop' = FALSE
              /\ book_msgs' = book_msgs + 1
         ELSE /\ ~msg_valid
              /\ msg_in = CHOOSE m \in msgs : TRUE
              /\ UNCHANGED book_msgs
              /\ IF ~conflict_fifo_empty
                 THEN /\ msg_reg' = Head(conflict_fifo)
                      /\ msg_pending' = TRUE
                      /\ conflict_fifo_pop' = TRUE
                      /\ book_state' = "BOOK_READ"
                 ELSE /\ conflict_fifo_pop' = FALSE
                      /\ UNCHANGED <<msg_reg, msg_pending, book_state>>
    /\ UNCHANGED <<last_bank, bookEntryRegs, bookBramRegs, book_event_reg>>

\* BOOK_IDLE while fewer than MaxBookMsgs messages were taken.
BookIdleFsm(msgs) == BookIdleFsmUpTo(msgs, MaxBookMsgs)

\* book_tob.sv:248-262
BookReadFsm ==
    /\ book_state = "BOOK_READ"
    /\ conflict_fifo_pop' = FALSE
    /\ bram_we' = AllBanksOff
    /\ IF bank_conflict /\ book_state # "BOOK_READ"
       THEN /\ conflict_fifo_push' = TRUE
            /\ msg_pending' = FALSE
            /\ book_state' = "BOOK_IDLE"
            /\ bram_en' = AllBanksOff
            /\ UNCHANGED <<bram_addr, last_bank>>
       ELSE /\ conflict_fifo_push' = FALSE
            /\ bram_en' = [AllBanksOff EXCEPT ![current_bank] = TRUE]
            /\ bram_addr' = [bram_addr EXCEPT ![current_bank] = current_addr]
            /\ last_bank' = current_bank
            /\ book_state' = "BOOK_PROCESS"
            /\ UNCHANGED msg_pending
    /\ UNCHANGED <<msg_reg, bookEntryRegs, bram_wr_data, book_event_reg,
                   event_pending, book_msgs>>

\* book_tob.sv:264-356.  The assignments are non-blocking: updated_entry is
\* computed from the value current_entry has before the edge, and
\* current_entry takes the value bram_rd_data has before the edge.
BookProcessFsm ==
    /\ book_state = "BOOK_PROCESS"
    /\ current_entry' = bram_rd_data[last_bank]
    /\ updated_entry' = UpdatedEntry(current_entry, msg_reg)
    /\ book_state' = "BOOK_WRITE"
    /\ bram_en' = AllBanksOff
    /\ bram_we' = AllBanksOff
    /\ conflict_fifo_push' = FALSE
    /\ conflict_fifo_pop' = FALSE
    /\ UNCHANGED <<msg_reg, msg_pending, last_bank, bookBramRegs,
                   book_event_reg, event_pending, book_msgs>>

\* book_tob.sv:358-366
BookWriteFsm ==
    /\ book_state = "BOOK_WRITE"
    /\ bram_en' = [AllBanksOff EXCEPT ![last_bank] = TRUE]
    /\ bram_we' = [AllBanksOff EXCEPT ![last_bank] = TRUE]
    /\ bram_addr' = [bram_addr EXCEPT ![last_bank] = current_addr]
    /\ bram_wr_data' = [bram_wr_data EXCEPT ![last_bank] = updated_entry]
    /\ book_state' = "BOOK_EMIT"
    /\ conflict_fifo_push' = FALSE
    /\ conflict_fifo_pop' = FALSE
    /\ UNCHANGED <<msg_reg, msg_pending, last_bank, bookEntryRegs,
                   book_event_reg, event_pending, book_msgs>>

\* book_tob.sv:368-394, with the value the risk gate presents on event_ready
BookEmitFsm ==
    /\ book_state = "BOOK_EMIT"
    /\ book_event_reg' =
          [symbol_idx |-> msg_reg.symbol_idx,
           bid_px |-> updated_entry.bid_px, bid_qty |-> updated_entry.bid_qty,
           ask_px |-> updated_entry.ask_px, ask_qty |-> updated_entry.ask_qty,
           last_update_ts |-> updated_entry.last_update_ts,
           valid |-> updated_entry.valid,
           last_trade_px |-> updated_entry.last_trade_px,
           last_trade_qty |-> updated_entry.last_trade_qty,
           trade_occurred |-> (msg_reg.msg_type = "P"),
           trigger_msg_type |-> msg_reg.msg_type]
    /\ event_pending' = TRUE
    /\ msg_pending' = FALSE
    /\ \E book_event_ready \in BOOLEAN :
         book_state' = IF book_event_ready \/ ~event_pending
                       THEN "BOOK_IDLE" ELSE "BOOK_EMIT"
    /\ bram_en' = AllBanksOff
    /\ bram_we' = AllBanksOff
    /\ conflict_fifo_push' = FALSE
    /\ conflict_fifo_pop' = FALSE
    /\ UNCHANGED <<msg_reg, last_bank, bookEntryRegs, bookBramRegs, book_msgs>>

\* The BRAM banks and the conflict FIFO at the same edge, with everything
\* outside book_tob left alone.
BookClk ==
    /\ BramClk
    /\ ConflictFifoClk
    /\ UNCHANGED bookRest

\* book_tob.sv:197-210 and 146-150: the state after reset, with bram_rd_data
\* and conflict_fifo_push, which have no reset value, at 0.
BookInit ==
    /\ book_state = "BOOK_IDLE"
    /\ msg_reg = ZeroMsg
    /\ msg_pending = FALSE
    /\ last_bank = 0
    /\ current_entry = ZeroEntry
    /\ updated_entry = ZeroEntry
    /\ book_event_reg = ZeroBookEvent
    /\ event_pending = FALSE
    /\ bram_en = AllBanksOff
    /\ bram_we = AllBanksOff
    /\ bram_addr = [b \in Banks |-> 0]
    /\ bram_wr_data = [b \in Banks |-> ZeroEntry]
    /\ bram_rd_data = [b \in Banks |-> ZeroEntry]
    /\ bram_mem = [b \in Banks |-> [a \in 0..(BANK_SIZE - 1) |-> ZeroEntry]]
    /\ conflict_fifo = <<>>
    /\ conflict_fifo_push = FALSE
    /\ conflict_fifo_pop = FALSE
    /\ book_msgs = 0

(***************************************************************************)
(* timestamp_counter (action_gpio.sv:109-280), the histogram the top level *)
(* instantiates (t2t_top.sv:263-280): one action is a whole clock edge.    *)
(***************************************************************************)
\* action_gpio.sv:111 and 113
HIST_BINS == 2 ^ BIN_ADDR_WIDTH
BIN_SHIFT == 2

\* action_gpio.sv:158
MAX_BIN_LATENCY == HIST_BINS * 2 ^ BIN_SHIFT

\* action_gpio.sv:196, the difference of two time stamps in COUNTER_WIDTH bits
latency_delta(latency_start, latency_end) ==
    (latency_end - latency_start) % 2 ^ COUNTER_WIDTH

\* action_gpio.sv:199-200
bin_idx(delta) == (delta \div 2 ^ BIN_SHIFT) % HIST_BINS
bin_overflow(delta) == delta >= MAX_BIN_LATENCY

\* action_gpio.sv:203-215, the pipeline stage
HistPipelineClk(latency_valid, latency_start, latency_end) ==
    LET delta == latency_delta(latency_start, latency_end)
    IN  /\ sample_valid_d1' = (latency_valid /\ cfg_enable)
        /\ bin_idx_d1' = bin_idx(delta)
        /\ overflow_d1' = bin_overflow(delta)
        /\ latency_d1' = delta

\* action_gpio.sv:221-236, the histogram update with cfg_hist_clear tied to
\* 0 (t2t_top.sv:274)
HistUpdateClk ==
    hist_mem' = IF sample_valid_d1 /\ ~overflow_d1
                   /\ hist_mem[bin_idx_d1] < 2 ^ HIST_WIDTH - 1
                THEN [hist_mem EXCEPT ![bin_idx_d1] = @ + 1]
                ELSE hist_mem

\* action_gpio.sv:249-266, the sample and overflow counters
HistStatClk ==
    /\ stat_samples' = IF sample_valid_d1 THEN (stat_samples + 1) % 2 ^ STAT_WIDTH
                       ELSE stat_samples
    /\ stat_overflow' = IF sample_valid_d1 /\ overflow_d1
                        THEN (stat_overflow + 1) % 2 ^ STAT_WIDTH ELSE stat_overflow

\* action_gpio.sv:204-208, 222-225 and 250-252: the state after reset
HistInit ==
    /\ hist_mem = [i \in 0..(HIST_BINS - 1) |-> 0]
    /\ sample_valid_d1 = FALSE
    /\ bin_idx_d1 = 0
    /\ overflow_d1 = FALSE
    /\ latency_d1 = 0
    /\ stat_samples = 0
    /\ stat_overflow = 0

(***************************************************************************)
(* PCIeConsumer (t2t_record.h:140-252): the polling loop of run            *)
(***************************************************************************)
\* t2t_record.h:249, cons_idx_ is a uint32_t that is never masked; its width
\* is scaled, and stays wider than the producer index of the device.
CONS_IDX_MOD == 2 ^ CONS_IDX_WIDTH

\* t2t_record.h:215, read_csr(CSR_PROD_IDX): the producer index register
RunReadProd ==
    /\ run_pc = "RUN_POLL"
    /\ run_prod' = prod_idx
    /\ run_pc' = "RUN_LOOP"
    /\ UNCHANGED <<cons_idx_, records_processed_, dmaVars, runRest>>

\* t2t_record.h:218, the slot the loop body reads
run_idx == BitAnd(cons_idx_, RING_DEPTH - 1)

\* t2t_record.h:217-228, one iteration of the inner loop: the record in slot
\* run_idx is handed to process_record
RunLoop ==
    /\ run_pc = "RUN_LOOP"
    /\ cons_idx_ # run_prod
    /\ cons_idx_' = (cons_idx_ + 1) % CONS_IDX_MOD
    /\ records_processed_' = records_processed_ + 1
    /\ UNCHANGED <<run_pc, run_prod, dmaVars, runRest>>

\* t2t_record.h:217 and 230, the exit of the inner loop:
\* write_csr(CSR_CONS_IDX, cons_idx_); the register of the device keeps the
\* low IDX_WIDTH bits (dma_pcie_ep.sv:408).
RunWriteCons ==
    /\ run_pc = "RUN_LOOP"
    /\ cons_idx_ = run_prod
    /\ status_cons_idx' = cons_idx_ % RING_DEPTH
    /\ run_pc' = "RUN_POLL"
    /\ run_prod' = 0
    /\ UNCHANGED <<cons_idx_, records_processed_, dmaRegs, cfg_ring_size,
                   hostVars, runRest>>

\* t2t_record.h:142-146, the constructor
RunInit ==
    /\ cons_idx_ = 0
    /\ records_processed_ = 0
    /\ run_pc = "RUN_POLL"
    /\ run_prod = 0

(***************************************************************************)
(* axi_async_fifo (action_gpio.sv:301-562)                                 *)
(***************************************************************************)
\* action_gpio.sv:303 and 307
DEPTH == 2 ^ ADDR_WIDTH
PTR_MOD == 2 * DEPTH

\* action_gpio.sv:393-395
bin2gray(bin) == Xor(bin, bin \div 2)

\* action_gpio.sv:397-404: bit i of the result, from the top bit down
RECURSIVE gray2bin_bit(_, _)
gray2bin_bit(gray, i) ==
    IF i = ADDR_WIDTH THEN (gray \div (2 ^ i)) % 2
    ELSE (gray2bin_bit(gray, i + 1) + ((gray \div (2 ^ i)) % 2)) % 2

RECURSIVE gray2bin_from(_, _)
gray2bin_from(gray, i) ==
    IF i > ADDR_WIDTH THEN 0
    ELSE gray2bin_bit(gray, i) * (2 ^ i) + gray2bin_from(gray, i + 1)

gray2bin(gray) == gray2bin_from(gray, 0)

\* action_gpio.sv:449, 453-454, 417, 414
rd_ptr_bin_wr_domain == gray2bin(rd_ptr_gray_sync2)
full == /\ (wr_ptr_bin \div DEPTH) # (rd_ptr_bin_wr_domain \div DEPTH)
        /\ (wr_ptr_bin % DEPTH) = (rd_ptr_bin_wr_domain % DEPTH)
afifo_s_axis_tready == ~full
wr_en == afifo_s_axis_tvalid /\ afifo_s_axis_tready

\* action_gpio.sv:512, 515, 479, 476, 498
wr_ptr_bin_rd_domain == gray2bin(wr_ptr_gray_sync2)
empty == rd_ptr_bin = wr_ptr_bin_rd_domain
afifo_m_axis_tvalid == ~empty
rd_en == afifo_m_axis_tvalid /\ afifo_m_axis_tready
afifo_m_axis_tdata == rd_data_packed

\* The read port without the output register: the word under the read
\* pointer.
afifo_m_axis_tdata_comb == mem[rd_ptr_bin % DEPTH]

\* The AXI-Stream source in front of the FIFO: it offers the words
\* 1..MaxWords in order and holds a word it has offered until it is taken.
WrInputs ==
    /\ afifo_s_axis_tdata' = IF wr_en THEN afifo_s_axis_tdata + 1 ELSE afifo_s_axis_tdata
    /\ afifo_s_axis_tvalid' \in IF afifo_s_axis_tvalid /\ ~wr_en THEN {TRUE}
                         ELSE IF afifo_s_axis_tdata' <= MaxWords THEN BOOLEAN
                         ELSE {FALSE}

\* action_gpio.sv:420-469, one edge of wr_clk: the write pointer, the memory
\* write, the synchroniser of the read pointer and the overflow flag.
WrClk ==
    /\ wr_ptr_bin' = IF wr_en THEN (wr_ptr_bin + 1) % PTR_MOD ELSE wr_ptr_bin
    /\ wr_ptr_gray' = IF wr_en THEN bin2gray((wr_ptr_bin + 1) % PTR_MOD)
                      ELSE wr_ptr_gray
    /\ mem' = IF wr_en THEN [mem EXCEPT ![wr_ptr_bin % DEPTH] = afifo_s_axis_tdata]
              ELSE mem
    /\ rd_ptr_gray_sync1' = rd_ptr_gray
    /\ rd_ptr_gray_sync2' = rd_ptr_gray_sync1
    /\ wr_overflow' = (wr_overflow \/ (afifo_s_axis_tvalid /\ full))
    /\ wr_accepted' = IF wr_en THEN Append(wr_accepted, afifo_s_axis_tdata)
                      ELSE wr_accepted
    /\ WrInputs
    /\ UNCHANGED <<rdDomain, afifoRest>>

\* action_gpio.sv:482-530, one edge of rd_clk: the read pointer, the
\* registered memory read, the synchroniser of the write pointer and the
\* underflow flag.  The sink may raise or drop afifo_m_axis_tready in any cycle;
\* the word it takes is the one on afifo_m_axis_tdata in the cycle of the
\* transfer.
RdClk ==
    /\ rd_ptr_bin' = IF rd_en THEN (rd_ptr_bin + 1) % PTR_MOD ELSE rd_ptr_bin
    /\ rd_ptr_gray' = IF rd_en THEN bin2gray((rd_ptr_bin + 1) % PTR_MOD)
                      ELSE rd_ptr_gray
    /\ rd_data_packed' = mem[rd_ptr_bin % DEPTH]
    /\ wr_ptr_gray_sync1' = wr_ptr_gray
    /\ wr_ptr_gray_sync2' = wr_ptr_gray_sync1
    /\ rd_underflow' = (rd_underflow \/ (afifo_m_axis_tready /\ empty))
    /\ rd_delivered' = IF rd_en THEN Append(rd_delivered, afifo_m_axis_tdata)
                       ELSE rd_delivered
    /\ afifo_m_axis_tready' \in BOOLEAN
    /\ UNCHANGED <<wrDomain, afifoRest>>

\* action_gpio.sv:421-424, 439-442, 464-466, 483-486, 502-505, 525-527: both
\* domains after reset.  mem and rd_data_packed have no reset; word 0 stands
\* for their power-up contents, which is no word of the stream.
AfifoInit ==
    /\ mem = [a \in 0..(DEPTH - 1) |-> 0]
    /\ wr_ptr_bin = 0 /\ wr_ptr_gray = 0
    /\ rd_ptr_gray_sync1 = 0 /\ rd_ptr_gray_sync2 = 0
    /\ wr_overflow = FALSE
    /\ rd_ptr_bin = 0 /\ rd_ptr_gray = 0
    /\ wr_ptr_gray_sync1 = 0 /\ wr_ptr_gray_sync2 = 0
    /\ rd_data_packed = 0
    /\ rd_underflow = FALSE
    /\ afifo_s_axis_tvalid = FALSE
    /\ afifo_s_axis_tdata = 1
    /\ afifo_m_axis_tready = FALSE
    /\ wr_accepted = <<>>
    /\ rd_delivered = <<>>

Init == RiskInit /\ CfgInit /\ CamInit /\ BookInit /\ HistInit /\ RunInit /\ AfifoInit /\ DmaInit /\ SplitInit

RiskNext == \/ RiskIdle \/ RiskCheck \/ RiskDecide
            \/ CsrWriteCtrl \/ CsrWriteKill \/ CsrWriteTokenRate

SpecRisk == Init /\ [][RiskNext]_vars

\* Prices, reference prices and band widths for the price-band check: the
\* prices of EventInputs, the smallest and the largest price, and prices in
\* the upper half of the range.
PriceInputs == {0, 100, 110, 128, 200, (2 ^ PRICE_WIDTH) - 1}
RefPriceInputs == {0, 100, 128}
BandBpsInputs == {0, 500, 1000}

\* Book events carrying those prices, taken in the cycle with timestamp 0.
BandEvents ==
    { [symbol_idx |-> 0, stale |-> FALSE, ingress_ts |-> 0, book_ts |-> 0,
       trigger_seq |-> 1, last_trade_px |-> 0,
       tob |-> [bid_px |-> b, bid_qty |-> 1, ask_px |-> a, ask_qty |-> 1, valid |-> TRUE]] :
         b \in PriceInputs, a \in PriceInputs }

\* The risk gate in the cycle after it has taken its first event
\* (risk_gate.sv:264-267), for every event of BandEvents and every reference
\* price and band width of the sets above; the pipeline is enabled and the
\* other registers are as after reset.
InitBand ==
    /\ risk_state = "RISK_CHECK"
    /\ event_reg \in BandEvents
    /\ decision_ts = 0
    /\ accept = FALSE
    /\ reject_reason = "RISK_ACCEPT"
    /\ decision_reg = ZeroDecision
    /\ decision_pending = FALSE
    /\ token_bucket = 0
    /\ token_replenish_cnt = 1
    /\ ref_price_reg = 0
    /\ risk_decided = 0
    /\ kill_age = 0
    /\ timestamp_cnt = 1
    /\ event_valid = FALSE
    /\ event_in = ZeroEvent
    /\ decision_ready = FALSE
    /\ cfg_enable = TRUE
    /\ cfg_kill = FALSE
    /\ cfg_token_max = 0
    /\ cfg_token_rate = 1000
    /\ cfg_price_band_bps \in BandBpsInputs
    /\ cfg_position_limit = 3
    /\ cfg_stale_usec = 1
    /\ ref_price_mem \in [{0} -> RefPriceInputs]
    /\ CamInit /\ BookInit /\ HistInit /\ RunInit /\ AfifoInit /\ DmaInit /\ SplitInit

BandNext == RiskIdle \/ RiskCheck \/ RiskDecide

SpecBand == InitBand /\ [][BandNext]_vars

\* Stale thresholds in microseconds for the staleness check: none (every
\* age above 0 is too old) and one far above the ages that occur.
StaleUsecInputs == {0, 1}

\* Book events taken in the cycle with timestamp 0, with and without the
\* stale flag.  book_ts is the decoder's decode_ts (book_tob.sv:375), which
\* the decoder leaves at 0 (itch_decoder.sv:183).
StaleEvents ==
    { [symbol_idx |-> 0, stale |-> f, ingress_ts |-> 0, book_ts |-> 0,
       trigger_seq |-> 1, last_trade_px |-> 0, tob |-> b] :
         f \in BOOLEAN, b \in TobInputs }

\* The risk gate in the cycle after it has taken its first event
\* (risk_gate.sv:264-267), for every event of StaleEvents and every
\* threshold of StaleUsecInputs; the pipeline is enabled and the other
\* registers are as after reset.
InitStale ==
    /\ risk_state = "RISK_CHECK"
    /\ event_reg \in StaleEvents
    /\ decision_ts = 0
    /\ accept = FALSE
    /\ reject_reason = "RISK_ACCEPT"
    /\ decision_reg = ZeroDecision
    /\ decision_pending = FALSE
    /\ token_bucket = 0
    /\ token_replenish_cnt = 1
    /\ ref_price_reg = 0
    /\ risk_decided = 0
    /\ kill_age = 0
    /\ timestamp_cnt = 1
    /\ event_valid = FALSE
    /\ event_in = ZeroEvent
    /\ decision_ready = FALSE
    /\ cfg_enable = TRUE
    /\ cfg_kill = FALSE
    /\ cfg_token_max = 0
    /\ cfg_token_rate = 1000
    /\ cfg_price_band_bps = 500
    /\ cfg_position_limit = 3
    /\ cfg_stale_usec \in StaleUsecInputs
    /\ ref_price_mem = [i \in {0} |-> 100]
    /\ CamInit /\ BookInit /\ HistInit /\ RunInit /\ AfifoInit /\ DmaInit /\ SplitInit

StaleNext == RiskIdle \/ RiskCheck \/ RiskDecide

SpecStale == InitStale /\ [][StaleNext]_vars

\* The k-th event of the token-bucket scenario, offered in the cycle with
\* timestamp t: the book event of an Add Order inside every limit.
ScenarioEvent(k, t) ==
    [symbol_idx |-> 0, stale |-> FALSE, ingress_ts |-> t, book_ts |-> t,
     trigger_seq |-> k, last_trade_px |-> 0, tob |-> GoodTob]

\* The gate's inputs in the scenario: the next event is offered in any cycle
\* in which the gate is idle, until ScenarioEvents events have been taken;
\* the consumer is always ready; the kill flag stays off.
ScenarioInputs ==
    /\ timestamp_cnt < ScenarioMaxTime
    /\ timestamp_cnt' = timestamp_cnt + 1
    /\ kill_age' = 0
    /\ event_valid' \in IF /\ risk_state' = "RISK_IDLE"
                          /\ event_reg'.trigger_seq < ScenarioEvents
                       THEN BOOLEAN ELSE {FALSE}
    /\ event_in' = IF event_valid'
                   THEN ScenarioEvent(event_reg'.trigger_seq + 1, timestamp_cnt')
                   ELSE ZeroEvent
    /\ decision_ready' = TRUE

\* The clock edge in the scenario: the token bucket with the longer
\* replenish interval.
ScenarioClk ==
    /\ TokenBucket(ScenarioReplenishCycles) /\ RefPriceClk /\ ScenarioInputs
    /\ UNCHANGED <<cfgVars, riskRest>>

ScenarioIdle == RiskIdleFsm /\ ScenarioClk
ScenarioCheck == RiskCheckFsm /\ ScenarioClk
ScenarioDecide == RiskDecideFsm /\ ScenarioClk

\* The gate after reset (risk_gate.sv:146-148, 253-258) with the scenario's
\* configuration in the registers and the pipeline enabled; the first event
\* may be offered at once.
InitScenario ==
    /\ risk_state = "RISK_IDLE"
    /\ event_reg = ZeroEvent
    /\ decision_ts = 0
    /\ accept \in BOOLEAN
    /\ reject_reason \in PowerUpReasons
    /\ decision_reg = ZeroDecision
    /\ decision_pending = FALSE
    /\ token_bucket = 0
    /\ token_replenish_cnt = 0
    /\ ref_price_reg = 0
    /\ risk_decided = 0
    /\ kill_age = 0
    /\ timestamp_cnt = 0
    /\ event_valid \in BOOLEAN
    /\ event_in = IF event_valid THEN ScenarioEvent(1, 0) ELSE ZeroEvent
    /\ decision_ready = TRUE
    /\ cfg_enable = TRUE
    /\ cfg_kill = FALSE
    /\ cfg_token_max = ScenarioTokenMax
    /\ cfg_token_rate = ScenarioTokenRate
    /\ cfg_price_band_bps = ScenarioBandBps
    /\ cfg_position_limit = 3
    /\ cfg_stale_usec = 1
    /\ ref_price_mem = [i \in {0} |-> 100]
    /\ CamInit /\ BookInit /\ HistInit /\ RunInit /\ AfifoInit /\ DmaInit /\ SplitInit

ScenarioNext == ScenarioIdle \/ ScenarioCheck \/ ScenarioDecide

SpecScenario == InitScenario /\ [][ScenarioNext]_vars

(***************************************************************************)
(* The gate with reference prices for several symbols                      *)
(***************************************************************************)
\* The reference price of symbol i: a different one for every symbol.
RefPriceOf(i) == 50 * (i + 1)

\* Book events of symbol i in the cycle with timestamp t: both sides of the
\* book at the reference price of some symbol, inside every other limit.
RefEvents(t) ==
    { [symbol_idx |-> i, stale |-> FALSE, ingress_ts |-> t, book_ts |-> t,
       trigger_seq |-> t + 1, last_trade_px |-> 0,
       tob |-> [GoodTob EXCEPT !.bid_px = RefPriceOf(j), !.ask_px = RefPriceOf(j)]] :
      i \in 0..(RefSymbols - 1), j \in 0..(RefSymbols - 1) }

\* The gate's inputs: an event of any symbol in any idle cycle, the consumer
\* ready or not, the kill flag off.
RefInputs ==
    /\ timestamp_cnt < RefMaxTime
    /\ timestamp_cnt' = timestamp_cnt + 1
    /\ kill_age' = 0
    /\ event_valid' \in IF risk_state' = "RISK_IDLE" THEN BOOLEAN ELSE {FALSE}
    /\ event_in' \in IF event_valid' THEN RefEvents(timestamp_cnt') ELSE {ZeroEvent}
    /\ decision_ready' \in IF decision_pending' \/ risk_state' = "RISK_DECIDE"
                          THEN BOOLEAN ELSE {FALSE}

RefClk ==
    /\ TokenBucketClk /\ RefPriceClk /\ RefInputs
    /\ UNCHANGED <<cfgVars, riskRest>>

RefIdle == RiskIdleFsm /\ RefClk
RefCheck == RiskCheckFsm /\ RefClk
RefDecide == RiskDecideFsm /\ RefClk

\* The gate after reset (risk_gate.sv:146-148, 183, 253-258), the pipeline
\* enabled, a ten percent price band and a reference price loaded for every
\* symbol.
InitRef ==
    /\ risk_state = "RISK_IDLE"
    /\ event_reg = ZeroEvent
    /\ decision_ts = 0
    /\ accept \in BOOLEAN
    /\ reject_reason \in PowerUpReasons
    /\ decision_reg = ZeroDecision
    /\ decision_pending = FALSE
    /\ token_bucket = 0
    /\ token_replenish_cnt = 0
    /\ ref_price_reg = 0
    /\ risk_decided = 0
    /\ kill_age = 0
    /\ timestamp_cnt = 0
    /\ event_valid \in BOOLEAN
    /\ event_in \in IF event_valid THEN RefEvents(0) ELSE {ZeroEvent}
    /\ decision_ready = FALSE
    /\ cfg_enable = TRUE
    /\ cfg_kill = FALSE
    /\ cfg_token_max = ScenarioTokenMax
    /\ cfg_token_rate = ScenarioTokenRate
    /\ cfg_price_band_bps = ScenarioBandBps
    /\ cfg_position_limit = 3
    /\ cfg_stale_usec = 1
    /\ ref_price_mem = [i \in 0..(RefSymbols - 1) |-> RefPriceOf(i)]
    /\ CamInit /\ BookInit /\ HistInit /\ RunInit /\ AfifoInit /\ DmaInit /\ SplitInit

RefNext == RefIdle \/ RefCheck \/ RefDecide

SpecRef == InitRef /\ [][RefNext]_vars

\* The symbol table alone; the unreset risk-gate registers take one value.
InitCam == Init /\ ~accept /\ reject_reason = "RISK_ACCEPT"

CamNext == CamLkpIdle \/ CamLkpProbe \/ CamLkpDone

SpecCam == InitCam /\ [][CamNext]_vars

\* The DMA engine with the host's consumer; the unreset risk-gate registers
\* take one value.
InitRing == Init /\ ~accept /\ reject_reason = "RISK_ACCEPT"

RingNext == \/ DmaIdle \/ DmaBuild \/ DmaWrite0 \/ DmaWrite1 \/ DmaUpdateIdx
            \/ PollStart \/ PollLoop \/ PollEnd
            \/ CsrWriteCtrl \/ CsrClearCtrl

SpecRing == InitRing /\ [][RingNext]_vars

\* The splitter alone, with sequence checking on or off and the first
\* expected sequence number 1; the unreset risk-gate registers take one
\* value.
InitSplit ==
    /\ RiskInit /\ ~accept /\ reject_reason = "RISK_ACCEPT"
    /\ CfgInit /\ CamInit /\ BookInit /\ HistInit /\ RunInit /\ AfifoInit /\ DmaInit
    /\ SplitReset
    /\ s_axis \in BeatInputs \cup {IdleBeat}
    /\ m_axis_tready \in BOOLEAN
    /\ cfg_seq_check_en \in BOOLEAN
    /\ cfg_expected_seq = 1

SplitNext == \/ SplitIdle \/ SplitHeader \/ SplitBody
             \/ SplitBodyLoopForever \/ SplitBodyLoopOnce
             \/ SplitEmit \/ SplitWait

SpecSplit == InitSplit /\ [][SplitNext]_vars

\* latency_histogram.sv:757 and 894, CTRL register bit 4 (sequence check
\* enable): the host switches sequence checking off between two clock edges
\* of the splitter, once it has seen the stale status (status register
\* 0x0E4, latency_histogram.sv:851).
CsrClearSeqCheck ==
    /\ cfg_seq_check_en
    /\ stale_latch
    /\ ~in_while_loop
    /\ cfg_seq_check_en' = FALSE
    /\ UNCHANGED <<splitRegs, splitInputs, cfg_expected_seq, in_while_loop,
                   splitHistory, splitRest>>

\* The stream of the sequence-check scenario: packets that hold one System
\* Event message with sequence number SeqCheckSeq, which is above the first
\* expected sequence number 1; the decoder takes SeqCheckFrames frames.
SeqCheckBeats ==
    { Beat(SubSeq(SystemEventMsg(SeqCheckSeq), 1, 8), 8, FALSE),
      Beat(<<0, 0, 0, 0, 0, 0, 0, 0>>, 4, TRUE) }

SeqCheckClk == SplitClkOf(SeqCheckBeats, SeqCheckFrames)

\* The clock edges of the splitter in the scenario.  The outcome of the
\* while loop in which the simulator never leaves it is left out: no frame
\* follows it.
SeqCheckIdle == SplitIdleFsm /\ SeqCheckClk
SeqCheckHeader == SplitHeaderFsm /\ SeqCheckClk
SeqCheckBody == SplitBodyFsm /\ SeqCheckClk
SeqCheckBodyLoopOnce == SplitBodyLoopOnceFsm /\ SeqCheckClk
SeqCheckEmit == SplitEmitFsm /\ SeqCheckClk
SeqCheckWait == SplitWaitFsm /\ SeqCheckClk

\* The splitter after reset with sequence checking on and the first
\* expected sequence number 1; the host may switch sequence checking off at
\* any time after a sequence gap.
InitSeqCheck ==
    /\ RiskInit /\ ~accept /\ reject_reason = "RISK_ACCEPT"
    /\ CfgInit /\ CamInit /\ BookInit /\ HistInit /\ RunInit /\ AfifoInit /\ DmaInit
    /\ SplitReset
    /\ s_axis \in SeqCheckBeats \cup {IdleBeat}
    /\ m_axis_tready \in BOOLEAN
    /\ cfg_seq_check_en = TRUE
    /\ cfg_expected_seq = 1

SeqCheckNext == \/ SeqCheckIdle \/ SeqCheckHeader \/ SeqCheckBody
                \/ SeqCheckBodyLoopOnce \/ SeqCheckEmit \/ SeqCheckWait
                \/ CsrClearSeqCheck

SpecSeqCheck == InitSeqCheck /\ [][SeqCheckNext]_vars

\* The stream of the unknown-type scenario: packets of beats whose first
\* byte is 'Z', which get_msg_length does not know, each ended by a short
\* beat with tlast.
UnknownTypeBeats ==
    { Beat(<<90, 0, 0, 0, 0, 0, 0, 0>>, 8, FALSE),
      Beat(<<0, 0, 0, 0, 0, 0, 0, 0>>, 4, TRUE) }

UnknownTypeClk == SplitClkOf(UnknownTypeBeats, MaxFrames)

\* The clock edges of the splitter in the scenario; with no known type the
\* state machine stays in SPLIT_IDLE and SPLIT_HEADER.
UnknownTypeIdle == SplitIdleFsm /\ UnknownTypeClk
UnknownTypeHeader == SplitHeaderFsm /\ UnknownTypeClk

\* The splitter after reset, with sequence checking on or off.
InitUnknownType ==
    /\ RiskInit /\ ~accept /\ reject_reason = "RISK_ACCEPT"
    /\ CfgInit /\ CamInit /\ BookInit /\ HistInit /\ RunInit /\ AfifoInit /\ DmaInit
    /\ SplitReset
    /\ s_axis \in UnknownTypeBeats \cup {IdleBeat}
    /\ m_axis_tready \in BOOLEAN
    /\ cfg_seq_check_en \in BOOLEAN
    /\ cfg_expected_seq = 1

UnknownTypeNext == UnknownTypeIdle \/ UnknownTypeHeader

SpecUnknownType == InitUnknownType /\ [][UnknownTypeNext]_vars

(***************************************************************************)
(* The book stage under a decoder that presents Add messages: both types,  *)
(* both sides, two prices, two quantities, two symbols in different banks. *)
(***************************************************************************)
BookPrices == {1, 2}
BookQtys == {1, 2}
BookSymbols == {0, 1}

\* itch_decoder.sv:197-225, an Add message ('A' or 'F') of a known symbol as
\* the decoder hands it over; decode_ts is left at 0 (183).
AddMsg(type, side, price, qty, idx) ==
    [msg_type |-> type, side |-> side, price |-> price, qty |-> qty,
     symbol_idx |-> idx, symbol_valid |-> TRUE, is_book_update |-> TRUE,
     decode_ts |-> 0]

AddMsgs == { AddMsg(t, d, p, q, i) : t \in {"A", "F"},
                                     d \in {"SIDE_BID", "SIDE_ASK"},
                                     p \in BookPrices, q \in BookQtys,
                                     i \in BookSymbols }

\* Values the registers without a reset value may hold when reset is
\* released: an entry with every bit clear, or a valid entry.
PowerUpEntries ==
    { ZeroEntry,
      [ZeroEntry EXCEPT !.bid_px = 2, !.bid_qty = 1, !.ask_px = 1,
                        !.ask_qty = 1, !.valid = TRUE] }

BookIdle == BookIdleFsm(AddMsgs) /\ BookClk
BookRead == BookReadFsm /\ BookClk
BookProcess == BookProcessFsm /\ BookClk
BookWrite == BookWriteFsm /\ BookClk
BookEmit == BookEmitFsm /\ BookClk

\* The reset state of the whole design with the pipeline enabled;
\* bram_rd_data (139-142) and conflict_fifo_push (217) have no reset value.
InitBook ==
    /\ RiskInit /\ ~accept /\ reject_reason = "RISK_ACCEPT"
    /\ cfg_enable = TRUE
    /\ cfg_kill = FALSE
    /\ cfg_token_max = 0
    /\ cfg_token_rate = 1000
    /\ cfg_price_band_bps = 500
    /\ cfg_position_limit = 3
    /\ cfg_stale_usec = 1
    /\ ref_price_mem = [i \in {0} |-> 100]
    /\ CamInit /\ HistInit /\ RunInit /\ AfifoInit /\ DmaInit /\ SplitInit
    /\ book_state = "BOOK_IDLE"
    /\ msg_reg = ZeroMsg
    /\ msg_pending = FALSE
    /\ last_bank = 0
    /\ current_entry = ZeroEntry
    /\ updated_entry = ZeroEntry
    /\ book_event_reg = ZeroBookEvent
    /\ event_pending = FALSE
    /\ bram_en = AllBanksOff
    /\ bram_we = AllBanksOff
    /\ bram_addr = [b \in Banks |-> 0]
    /\ bram_wr_data = [b \in Banks |-> ZeroEntry]
    /\ bram_rd_data \in { [b \in Banks |-> e] : e \in PowerUpEntries }
    /\ bram_mem = [b \in Banks |-> [a \in 0..(BANK_SIZE - 1) |-> ZeroEntry]]
    /\ conflict_fifo = <<>>
    /\ conflict_fifo_push \in BOOLEAN
    /\ conflict_fifo_pop = FALSE
    /\ book_msgs = 0

BookNext == BookIdle \/ BookRead \/ BookProcess \/ BookWrite \/ BookEmit

SpecBook == InitBook /\ [][BookNext]_vars

(***************************************************************************)
(* The book stage under a decoder that presents Add messages of known and  *)
(* of unknown symbols and Executed-with-price messages.                    *)
(***************************************************************************)
\* itch_decoder.sv:247-260: an Executed-with-price message ('C') as the
\* decoder hands it over.  DEC_PARSE assigns order_id, qty (executed shares),
\* price (execution price) and is_book_update and goes to DEC_EMIT without a
\* lookup, so side, symbol_idx and symbol_valid are the ones decoded_reg
\* keeps from the message before, which is the one in msg_reg.
ExecPxMsg(price, qty) ==
    [msg_type |-> "C", side |-> msg_reg.side, price |-> price, qty |-> qty,
     symbol_idx |-> msg_reg.symbol_idx, symbol_valid |-> msg_reg.symbol_valid,
     is_book_update |-> TRUE, decode_ts |-> 0]

\* itch_decoder.sv:197-225 and 345-352: an Add message whose lookup missed,
\* with the index symtab_cam puts out on a miss.
UnknownSymbolMsg(type, side, price, qty) ==
    [AddMsg(type, side, price, qty, CamMiss.idx) EXCEPT !.symbol_valid = FALSE]

ExecMsgs ==
    { AddMsg("A", d, 1, 2, i) : d \in {"SIDE_BID", "SIDE_ASK"}, i \in BookSymbols }
      \cup { UnknownSymbolMsg("A", d, 2, 1) : d \in {"SIDE_BID", "SIDE_ASK"} }
      \cup { ExecPxMsg(p, q) : p \in BookPrices, q \in BookQtys }

ExecIdle == BookIdleFsm(ExecMsgs) /\ BookClk

\* The reset state with conflict_fifo_push low, so that msg_reg always holds
\* the message the decoder handed over last.
InitBookExec == InitBook /\ ~conflict_fifo_push

BookExecNext == ExecIdle \/ BookRead \/ BookProcess \/ BookWrite \/ BookEmit

SpecBookExec == InitBookExec /\ [][BookExecNext]_vars

(***************************************************************************)
(* The book stage under Adds for three symbols, two of them in one bank,   *)
(* followed over MaxFrameMsgs messages.                                    *)
(***************************************************************************)
FrameSymbols == {0, 1, 2}

\* One Add per side and symbol, at a price only that symbol's messages
\* carry and that no register holds at power-up.
FramePrice(i) == 3 + i
FrameMsgs == { AddMsg("A", d, FramePrice(i), 2, i) :
                 d \in {"SIDE_BID", "SIDE_ASK"}, i \in FrameSymbols }

FrameIdle == BookIdleFsmUpTo(FrameMsgs, MaxFrameMsgs) /\ BookClk

BookFrameNext == FrameIdle \/ BookRead \/ BookProcess \/ BookWrite \/ BookEmit

SpecBookFrame == InitBook /\ [][BookFrameNext]_vars

(***************************************************************************)
(* The histogram under samples of any latency                              *)
(***************************************************************************)
\* t2t_top.sv:267-269: a clock edge of timestamp_counter with the values the
\* top level presents on latency_start (an ingress time stamp), latency_end
\* (a decision time stamp) and latency_valid (a decision handed over), while
\* fewer than MaxHistSamples samples were taken.
HistClk ==
    /\ \E latency_valid \in BOOLEAN,
          latency_start \in {0, 3},
          latency_end \in 0..(2 ^ COUNTER_WIDTH - 1) :
         /\ latency_start <= latency_end
         /\ latency_valid => stat_samples + (IF sample_valid_d1 THEN 1 ELSE 0)
                               < MaxHistSamples
         /\ HistPipelineClk(latency_valid, latency_start, latency_end)
    /\ HistUpdateClk
    /\ HistStatClk
    /\ UNCHANGED histRest

\* The reset state of the whole design with the pipeline enabled.
InitHist == InitBook /\ ~conflict_fifo_push /\ bram_rd_data = [b \in Banks |-> ZeroEntry]

SpecHist == InitHist /\ [][HistClk]_vars

\* pcie_dma with PCIeConsumer as the host's consumer; the host starts the
\* pipeline.
RunNext == \/ DmaIdle \/ DmaBuild \/ DmaWrite0 \/ DmaWrite1 \/ DmaUpdateIdx
           \/ RunReadProd \/ RunLoop \/ RunWriteCons
           \/ CsrWriteCtrl

SpecRun == InitRing /\ [][RunNext]_vars

\* The asynchronous FIFO with its two clocks in any order.
InitAfifo == InitRing

AfifoNext == WrClk \/ RdClk

SpecAfifo == InitAfifo /\ [][AfifoNext]_vars

(***************************************************************************)
(* The decision record pcie_dma builds (dma_pcie_ep.sv:533-558) in the     *)
(* layout of dma_record_t (t2t_pkg.sv:188-205)                             *)
(***************************************************************************)
\* dma_pcie_ep.sv:545-550, the flags byte {2'b0, kill, position, token,
\* band, stale, accept}
record_flags(d) ==
    (IF d.accept THEN 1 ELSE 0)
    + (IF d.book_event.stale THEN 2 ELSE 0)
    + (IF d.reason = "RISK_PRICE_BAND" THEN 4 ELSE 0)
    + (IF d.reason = "RISK_TOKEN_BUCKET" THEN 8 ELSE 0)
    + (IF d.reason = "RISK_POSITION_LIMIT" THEN 16 ELSE 0)
    + (IF d.reason = "RISK_KILL_SWITCH" THEN 32 ELSE 0)

\* A publisher that writes the two timestamps into each other's field.
record_buf_ts_swapped(d) ==
    [seq           |-> d.book_event.symbol_idx,
     reserved_lo   |-> 0,
     ts_ing        |-> d.decision_ts,
     ts_dec        |-> d.book_event.ingress_ts,
     sym_idx       |-> d.book_event.symbol_idx,
     side          |-> IF d.book_event.tob.valid THEN 1 ELSE 0,
     flags         |-> record_flags(d),
     qty           |-> d.book_event.tob.bid_qty,
     price         |-> d.book_event.tob.bid_px,
     ref_px        |-> d.book_event.tob.ask_px,
     feature0      |-> 0,
     feature1      |-> 0,
     feature2      |-> d.book_event.last_trade_px,
     payload_crc16 |-> 0,
     pad           |-> 0,
     reserved_hi   |-> 0]

\* dma_pcie_ep.sv:533-558, record_buf for the decision d at the head of the
\* input FIFO.  Every field the block does not assign keeps the '0 of line
\* 534: reserved_lo, payload_crc16, pad and reserved_hi.  The two
\* differences wrap in the width of their operands (scaled to PRICE_WIDTH).
record_buf(d) ==
    [seq           |-> d.book_event.symbol_idx,
     reserved_lo   |-> 0,
     ts_ing        |-> d.book_event.ingress_ts,
     ts_dec        |-> d.decision_ts,
     sym_idx       |-> d.book_event.symbol_idx,
     side          |-> IF d.book_event.tob.valid THEN 1 ELSE 0,
     flags         |-> record_flags(d),
     qty           |-> d.book_event.tob.bid_qty,
     price         |-> d.book_event.tob.bid_px,
     ref_px        |-> d.book_event.tob.ask_px,
     feature0      |-> (d.book_event.tob.ask_px - d.book_event.tob.bid_px)
                          % (2 ^ PRICE_WIDTH),
     feature1      |-> (d.book_event.tob.bid_qty - d.book_event.tob.ask_qty)
                          % (2 ^ PRICE_WIDTH),
     feature2      |-> d.book_event.last_trade_px,
     payload_crc16 |-> 0,
     pad           |-> 0,
     reserved_hi   |-> 0]

\* t2t_pkg.sv:192-204, bytes 0..51 of a record: the fields below
\* payload_crc16, from seq upwards.
record_bytes_0_51(r) ==
    LEBytes(r.seq, 4) \o LEBytes(r.reserved_lo, 4) \o LEBytes(r.ts_ing, 8)
    \o LEBytes(r.ts_dec, 8) \o LEBytes(r.sym_idx, 2) \o LEBytes(r.side, 1)
    \o LEBytes(r.flags, 1) \o LEBytes(r.qty, 4) \o LEBytes(r.price, 4)
    \o LEBytes(r.ref_px, 4) \o LEBytes(r.feature0, 4)
    \o LEBytes(r.feature1, 4) \o LEBytes(r.feature2, 4)

\* The record the publisher builds from the decision the risk gate is
\* handing over (risk_gate.sv:368, dma_pcie_ep.sv:499).
record_of_decision == record_buf(decision_reg)

(***************************************************************************)
(* Properties of the risk gate, checked under SpecRisk                     *)
(***************************************************************************)
\* The verdict the checks give for the event held in event_reg
\* (risk_gate.sv:279-299).
verdict_reason == IF all_checks_ok THEN "RISK_ACCEPT" ELSE priority_reason

\* A decision is handed to the consumer in this cycle (risk_gate.sv:162, 351).
decision_handover == decision_valid /\ decision_ready

\* A replenishment is due at this clock edge (risk_gate.sv:151).
replenish_due == token_replenish_cnt >= TOKEN_REPLENISH_CYCLES - 1

\* C6: while the kill flag is asserted, every decision the gate builds is a
\* reject carrying the kill-switch reason.  Stated on the RISK_DECIDE clock
\* edge, where the decision record is built, for a kill flag that has been
\* asserted for the documented latency of two clock cycles, and only after
\* an earlier event has been decided (no power-up value is involved).
C6_KillRejectsAll ==
    [][(RiskDecide /\ kill_age >= KILL_LATENCY_CYCLES /\ risk_decided >= 1)
         => (~decision_reg'.accept /\ decision_reg'.reason = "RISK_KILL_SWITCH")]_vars

\* C7: the decision built for an event has accept = 1 exactly when all the
\* checks pass for that same event at its evaluation, and its reason is the
\* one computed for that same event.
C7_VerdictOfSameEvent ==
    [][(RiskDecide /\ risk_decided >= 1)
         => (/\ decision_reg'.accept = all_checks_ok
             /\ decision_reg'.reason = verdict_reason)]_vars

\* C8: in every reachable state the token count is at most the configured
\* token bucket maximum.
C8_TokensAtMostMax == token_bucket <= cfg_token_max

\* C9: each accepted decision that is handed over decreases the token count
\* by exactly one, and a rejected decision leaves it unchanged.  Stated on
\* the clock edge of the hand-over (the gate is in RISK_IDLE then) of a
\* decision whose verdict was computed by the gate (not a power-up value);
\* edges on which a replenishment falls due are left out on both sides.
C9_AcceptConsumesOne ==
    [][(RiskIdle /\ decision_handover /\ risk_decided >= 2 /\ ~replenish_due)
         => token_bucket' = IF decision_reg.accept
                            THEN token_bucket - 1 ELSE token_bucket]_vars

(***************************************************************************)
(* Properties of the symbol table, checked under SpecCam                   *)
(***************************************************************************)
\* C5: every finished lookup, including one during which a commit happened,
\* returns the result it has against one of the complete maps that were
\* active while it ran (the map before the commit or the map after it).
C5_LookupSeesOneMap == lkp_state = "LKP_DONE" => lookup_result \in lkp_admissible

(***************************************************************************)
(* Properties of the publisher ring, checked under SpecRing                *)
(***************************************************************************)
\* The producer and consumer counters of the ring: the number of records
\* published (dma_pcie_ep.sv:667-669) and the number of records consumed
\* (t2t_ctl.cpp:738-741).
producer == stat_records_dma
consumer == consumed

\* The consumer index the host holds: the local cons inside Device::poll,
\* consumer_idx_ outside (t2t_ctl.cpp:731-747).
host_cons_idx == IF poll_pc = "POLL_LOOP" THEN poll_cons ELSE consumer_idx_

\* The host is outside Device::poll and the consumer index it wrote has
\* reached the DMA engine (latency_histogram.sv:913, dma_pcie_ep.sv:513).
consumer_settled ==
    /\ poll_pc = "POLL_IDLE"
    /\ status_cons_idx = consumer_idx_
    /\ cons_idx_sync = status_cons_idx

\* C1: in every reachable state of the ring, after any interleaving of
\* publishes, drops, consumer advances and enable/disable writes, the
\* producer counter is at least the consumer counter and exceeds it by at
\* most the ring length; the ring indices are the low bits of the counters.
C1_RingOccupancy ==
    /\ producer >= consumer
    /\ producer - consumer <= ring_entries_
    /\ prod_idx = producer % ring_entries_
    /\ host_cons_idx = consumer % ring_entries_

\* C1 witness: the ring is at its highest fill level after the consumer
\* has advanced and a drop has been counted.
C1_Witness ==
    /\ ring_full
    /\ stat_drops > 0
    /\ consumer > 0
    /\ producer - consumer = ring_entries_ - 1

\* C2: when the ring is full the new record is discarded: no record that
\* was offered at a clock edge that found the ring full (and was counted as
\* a drop) is written to the ring.
C2_FullRingDiscards ==
    \A s \in 0..(RING_DEPTH - 1) : \A h \in Halves :
        host_ring[s][h] \notin drop_counted

\* C3: the producer index is advanced to cover a slot only after both
\* halves of one record have been written to the slot since the engine
\* started on it.
C3_IndexAfterWholeRecord ==
    [][DmaUpdateIdx => (wr_done'.lo # 0 /\ wr_done'.hi = wr_done'.lo)]_vars

C10_RefusedOnlyWhenFull ==
    (record_valid /\ ring_full /\ consumer_settled)
        => producer - consumer = ring_entries_

\* The records handed to the publisher so far: record_in numbers the
\* arrivals and moves on when a record is taken (dma_pcie_ep.sv:500-502).
records_handed == record_in - 1

\* No record is offered or on its way through the engine: the input FIFO is
\* empty and the state machine has returned to DMA_IDLE.
dma_quiescent == ~record_valid /\ fifo_empty /\ dma_state = "DMA_IDLE"

\* C11: every decision record handed to the publisher is accounted for
\* exactly once, as a published record or as a ring-full drop: once the
\* engine has worked off everything it was handed, the published-records
\* counter and the drop counter add up to the number of records handed over.
C11_AccountedExactlyOnce ==
    dma_quiescent => stat_records_dma + stat_drops = records_handed

\* C12: a full ring never wedges the pipeline: while the ring is full (and
\* the pipeline is enabled) the publisher keeps taking the records the data
\* path offers, so the stages before it are never stalled by the ring.
C12_FullRingNeverBlocks == (cfg_enable /\ ring_full) => record_ready

(***************************************************************************)
(* Properties of the price-band check, checked under SpecBand              *)
(***************************************************************************)
\* The price-band rule on unbounded integers: the mid price, its distance
\* from the reference price, and the comparison in basis points.
band_mid == (event_reg.tob.bid_px + event_reg.tob.ask_px) \div 2
band_dist == IF band_mid >= ref_price_reg THEN band_mid - ref_price_reg
             ELSE ref_price_reg - band_mid
band_rule_ok == \/ ref_price_reg = 0
                \/ cfg_price_band_bps = 0
                \/ band_dist * BPS_SCALE <= ref_price_reg * cfg_price_band_bps

\* C20: when the gate decides an event, the price-band check passes whenever
\* the reference price or the band width is 0, and otherwise passes exactly
\* when |mid - ref_price| * 10000 <= ref_price * price_band_bps with
\* mid = (bid_px + ask_px) / 2.
C20_PriceBandRule ==
    risk_state = "RISK_DECIDE" => (check_price_band_ok <=> band_rule_ok)

(***************************************************************************)
(* Properties of the decision record, checked under SpecRisk               *)
(***************************************************************************)
\* t2t_pkg.sv:239-259, crc16_ccitt: CRC-16-CCITT, polynomial 0x1021, initial
\* value 0xFFFF, most significant bit first, no reflection, no final xor.
\* Lines 251-256, k turns of the inner loop on the 16-bit register crc.
RECURSIVE Crc16Shift(_, _)
Crc16Shift(crc, k) ==
    IF k = 0 THEN crc
    ELSE LET next == IF crc \div 32768 = 1
                     THEN Xor((crc * 2) % 65536, 4129)
                     ELSE (crc * 2) % 65536
         IN  IF next >= 0 THEN Crc16Shift(next, k - 1) ELSE 0

\* Lines 249-256, one turn of the outer loop: the byte is xored into the
\* upper half of the register, then eight shifts.
Crc16Byte(crc, byte) == Crc16Shift(Xor(crc, byte * 256), 8)

\* Lines 248-257, the register after bytes lo..hi of a sequence, starting
\* from crc (the range is halved to keep the evaluation shallow).
RECURSIVE Crc16Range(_, _, _, _)
Crc16Range(crc, bytes, lo, hi) ==
    IF lo > hi THEN crc
    ELSE IF lo = hi THEN Crc16Byte(crc, bytes[lo])
    ELSE LET mid == (lo + hi) \div 2
             left == Crc16Range(crc, bytes, lo, mid)
         IN  IF left >= 0 THEN Crc16Range(left, bytes, mid + 1, hi) ELSE 0

\* Lines 247 and 258.
Crc16Ccitt(bytes) == Crc16Range(65535, bytes, 1, Len(bytes))

\* C17: for every record built for a decision that is handed to the
\* publisher, payload_crc16 equals CRC-16-CCITT (polynomial 0x1021, initial
\* value 0xFFFF, no reflection, no final xor) over bytes 0..51 of that same
\* record.
C17_PayloadCrc ==
    decision_valid =>
        record_of_decision.payload_crc16
            = Crc16Ccitt(record_bytes_0_51(record_of_decision))

C19_SeqOfTriggeringMessage ==
    decision_valid => record_of_decision.seq = decision_reg.book_event.trigger_seq

(***************************************************************************)
(* Properties of the splitter, checked under SpecSplit                     *)
(***************************************************************************)
\* itch_decoder.sv:161-164, the fields the decoder takes from the 96 bits of
\* a frame's tuser: the sequence number from bits 95:64, the type from bits
\* 63:56, the flags from bits 55:48 and the timestamp from bits 47:0.
frame_msg_flags == m_axis_tuser[7]

\* itch_decoder.sv:186, the stale flag of a frame: bit 7 of its flags.
frame_stale == frame_msg_flags \div 128 = 1

\* itch_splitter.sv:267, the message in the buffer is processed at this
\* clock edge.
msg_processed ==
    split_state = "SPLIT_EMIT" /\ (m_axis_tready \/ ~m_axis_tvalid)

\* C13: once a sequence gap has asserted the stale latch (nothing clears
\* it), every frame the splitter hands over afterwards has its stale flag
\* set.
C13_StaleOnEveryFrame == (stale_latch /\ frame_handover) => frame_stale

\* C14: after a gap, the message whose sequence number is the expected_seq
\* of the gap plus seq_gap_threshold, processed with no further gap and
\* every message since the gap in order, clears the stale latch, and the
\* message one below it does not.
C14_LatchClearedAtThreshold ==
    [][(/\ SplitEmit
        /\ msg_processed
        /\ cfg_seq_check_en
        /\ stale_latch
        /\ gap_expected > 0
        /\ msg_buffer_seq = expected_seq)
         => /\ (msg_buffer_seq = gap_expected + seq_gap_threshold)
                  => ~stale_latch'
            /\ (msg_buffer_seq = gap_expected + seq_gap_threshold - 1)
                  => stale_latch']_vars

\* C15: with sequence checking enabled, a message whose sequence number is
\* lower than expected_seq raises the pulse that increments the dupes
\* counter by one and is dropped: no frame is handed to the decoder for it,
\* and expected_seq and the stale latch keep their values.
C15_DuplicateDropped ==
    [][(/\ SplitEmit
        /\ msg_processed
        /\ cfg_seq_check_en
        /\ msg_buffer_seq < expected_seq)
         => /\ seq_dupe_detected'
            /\ stat_messages' = stat_messages
            /\ expected_seq' = expected_seq
            /\ stale_latch' = stale_latch]_vars

\* The payload bytes of the recorded beats: of each beat the bytes its
\* tkeep declares valid.
RECURSIVE StreamBytes(_)
StreamBytes(beats) ==
    IF beats = <<>> THEN <<>>
    ELSE SubSeq(Head(beats).tdata, 1, Cardinality(Head(beats).tkeep))
         \o StreamBytes(Tail(beats))

\* A byte sequence is a sequence of complete messages of known types: each
\* starts with a type byte of the length table and has that length.
RECURSIVE CompleteMessages(_)
CompleteMessages(bytes) ==
    \/ bytes = <<>>
    \/ /\ get_msg_length(bytes[1]) > 0
       /\ get_msg_length(bytes[1]) <= Len(bytes)
       /\ CompleteMessages(SubSeq(bytes, get_msg_length(bytes[1]) + 1,
                                  Len(bytes)))

\* The messages of such a byte sequence, in order.
RECURSIVE Messages(_)
Messages(bytes) ==
    IF bytes = <<>> THEN <<>>
    ELSE <<SubSeq(bytes, 1, get_msg_length(bytes[1]))>>
         \o Messages(SubSeq(bytes, get_msg_length(bytes[1]) + 1, Len(bytes)))

\* The splitter has nothing left to work on: it is idle, its input
\* registers hold no beat and the source offers none.
split_quiescent ==
    /\ split_state = "SPLIT_IDLE"
    /\ ~tvalid_reg
    /\ ~s_axis.tvalid
    /\ ~in_while_loop

\* C16: when the stream taken so far is a packet of complete messages of
\* known types and the splitter has nothing left to work on, the frames it
\* has handed over are exactly those messages, one frame per message, in
\* stream order and with the message's bytes.
C16_OneFramePerMessage ==
    (/\ ~rx_overflow
     /\ rx_beats # <<>>
     /\ rx_beats[Len(rx_beats)].tlast
     /\ CompleteMessages(StreamBytes(rx_beats))
     /\ split_quiescent)
        => tx_frames = Messages(StreamBytes(rx_beats))


(***************************************************************************)
(* Properties of the reject reason, checked under SpecRisk                 *)
(***************************************************************************)
\* The checks that fail for the event held in event_reg, in the order of
\* the priority encoder (risk_gate.sv:287-298): kill, stale data or sequence
\* gap, price band, token bucket, position limit.
kill_fails == ~check_not_killed
stale_fails == ~check_not_stale \/ ~check_no_seq_gap
band_fails == ~check_price_band_ok
token_fails == ~check_token_ok
position_fails == ~check_position_ok

\* The number of failing checks (risk_gate.sv:279-280).
failing_checks ==
    Cardinality({ c \in { <<1, kill_fails>>, <<2, stale_fails>>, <<3, band_fails>>,
                          <<4, token_fails>>, <<5, position_fails>> } : c[2] })

\* The reasons that belong to the highest-priority failing check.
highest_priority_reasons ==
    IF kill_fails THEN {"RISK_KILL_SWITCH"}
    ELSE IF stale_fails THEN {"RISK_STALE_DATA", "RISK_SEQ_GAP"}
    ELSE IF band_fails THEN {"RISK_PRICE_BAND"}
    ELSE IF token_fails THEN {"RISK_TOKEN_BUCKET"}
    ELSE {"RISK_POSITION_LIMIT"}

\* C21: when several checks fail for the same event, the reason in the
\* decision built for that event is that of the highest-priority failing
\* check in the order kill, stale/seq-gap, price band, token bucket,
\* position limit.  Stated on the RISK_DECIDE clock edge, after an earlier
\* event has been decided (no power-up value is involved).
C21_HighestPriorityReason ==
    [][(RiskDecide /\ risk_decided >= 1 /\ failing_checks >= 2)
         => decision_reg'.reason \in highest_priority_reasons]_vars

\* The priority encoder itself: the reason register written at the
\* RISK_DECIDE edge (risk_gate.sv:286-299).
C21_ReasonRegisterPriority ==
    [][(RiskDecide /\ failing_checks >= 2)
         => reject_reason' \in highest_priority_reasons]_vars


(***************************************************************************)
(* Properties of the staleness check, checked under SpecStale              *)
(***************************************************************************)
\* The event in event_reg is too old: its age in clock cycles exceeds the
\* stale threshold (risk_gate.sv:234-237).
age_exceeds_threshold == data_age_cycles > stale_threshold_cycles

\* C24: when the gate decides an event, it rejects the event for staleness
\* (stale data or sequence gap) if the event's stale flag is set or its age
\* now - book_ts exceeds the stale threshold, either alone sufficing, and
\* not when neither holds.
C24_StaleRule ==
    risk_state = "RISK_DECIDE"
        => (stale_fails <=> (event_reg.stale \/ age_exceeds_threshold))

\* The part of the rule the checks do follow: the stale flag alone rejects,
\* and nothing is rejected for staleness without it.
C24_StaleFlagRule == risk_state = "RISK_DECIDE" => (stale_fails <=> event_reg.stale)


(***************************************************************************)
(* The token-bucket scenario, checked under SpecScenario                   *)
(***************************************************************************)
\* The number, in arrival order, of the event whose decision is in
\* decision_reg.
decision_number == decision_reg.book_event.trigger_seq

\* C22: with one token per millisecond, a bucket of three tokens, a wide
\* price band and kill off, of the decisions for five identical events that
\* arrive within 10 microseconds of the initial state the first three are
\* accepts and the last two are rejects with the token-bucket reason.
\* Stated on every decision that is handed over.
C22_ThreeAcceptsTwoTokenRejects ==
    decision_handover
        => IF decision_number <= ScenarioTokenMax
           THEN decision_reg.accept
           ELSE ~decision_reg.accept /\ decision_reg.reason = "RISK_TOKEN_BUCKET"

\* What the bucket does in the scenario: it is empty after reset and no
\* replenishment falls due, so the token check fails for all five events.
C22_BucketStaysEmpty ==
    token_bucket = 0 /\ token_replenish_cnt < ScenarioReplenishCycles - 1


(***************************************************************************)
(* Properties of the splitter under a host that switches sequence checking *)
(* off, checked under SpecSeqCheck                                         *)
(***************************************************************************)
\* itch_splitter.sv:338-341, the flags the splitter puts on a frame: the
\* byte of m_axis_tuser that holds stale_latch, seq_gap_detected and
\* seq_dupe_detected, and its top bit, the stale flag.
emitted_flags == m_axis_tuser[9]
emitted_stale == emitted_flags \div 128 = 1

\* C25: while sequence checking is disabled, the splitter hands over no
\* frame with the stale flag asserted.
C25_NoStaleWhileDisabled ==
    (~cfg_seq_check_en /\ frame_handover) => ~emitted_stale

\* With sequence checking disabled from reset on, the stale latch is never
\* set (checked under SpecSplit).
C25_DisabledFromReset == ~cfg_seq_check_en => ~stale_latch


(***************************************************************************)
(* Properties of the splitter at an unknown type byte, checked under       *)
(* SpecUnknownType                                                         *)
(***************************************************************************)
\* C26: after an unknown type byte the splitter starts no message in a beat
\* of the same packet: while the beat in the input registers belongs to
\* the packet of the unknown type byte, SPLIT_IDLE does not move on to
\* SPLIT_HEADER; framing resumes with the next packet.
C26_ResumeAtNextPacket ==
    [][(split_state = "SPLIT_IDLE" /\ tvalid_reg /\ unknown_pkt.reg)
         => split_state' = "SPLIT_IDLE"]_vars

\* The part of C26 the splitter does follow: no frame is put out for an
\* unknown type byte (the message on the output has a known type).
C26_NoFrameForUnknownType == msg_ready => get_msg_length(cur_msg_type) > 0


(***************************************************************************)
(* Properties of the symbol table's load path, checked under SpecCam       *)
(***************************************************************************)
\* The load the table accepts in this step is the one of key k and index i.
LoadStep(k, i) ==
    /\ k \in LoadableKeys
    /\ load_ready(FALSE)
    /\ CamHostClk([load_valid |-> TRUE, load_key |-> k, load_idx |-> i,
                   commit |-> FALSE])

\* symtab_cam.sv:213-238, the while loop ends without inserting: every slot
\* of the key's probe sequence in the shadow map is occupied.
probes_exhausted(k) == FirstFree(ShadowTable, hash_load(k), 0) = -1

\* C23: a symbol load whose probe slots in the shadow map are all occupied
\* inserts nothing and is reported to the caller as a "table full" failure
\* (the table raises table_full, or load_symbol returns false).
C23_ExhaustedLoadReported ==
    [][\A k \in CamKeys, i \in CamIdxs :
         (LoadStep(k, i) /\ probes_exhausted(k))
            => /\ UNCHANGED <<cam_0, cam_1>>
               /\ (table_full' \/ ~load_symbol(k, i))]_vars

\* The part of C23 the table does follow: such a load inserts nothing.
C23_ExhaustedLoadInsertsNothing ==
    [][\A k \in CamKeys, i \in CamIdxs :
         (LoadStep(k, i) /\ probes_exhausted(k))
            => UNCHANGED <<cam_0, cam_1, load_count>>]_vars

\* C27: a load changes only the shadow map: a step in which the table takes
\* a load leaves the map lookups read as it is, and with it the result of
\* the lookup of every key.
C27_LoadKeepsLookups ==
    [][cam_loads' # cam_loads
         => /\ ActiveTable' = ActiveTable
            /\ \A k \in CamKeys :
                  MapLookup(ActiveTable, k)' = MapLookup(ActiveTable, k)]_vars

\* A key found in the active map with one index while the shadow map
\* already holds it with another: the lookup finished after the load.
C27_Witness ==
    /\ lkp_state = "LKP_DONE"
    /\ lkp_found
    /\ MapLookup(ActiveTable, lkp_key_reg) = CamHit(lkp_result_idx)
    /\ \E a \in 0..(HASH_SIZE - 1) :
         /\ ShadowTable[a].valid
         /\ ShadowTable[a].key = lkp_key_reg
         /\ ShadowTable[a].value # lkp_result_idx


(***************************************************************************)
(* Properties of the symbol table's lookups, checked under SpecCam         *)
(***************************************************************************)
\* C28: a lookup returns a hit with index i if and only if the pair
\* (key, i) was inserted into the map that is now active: when every map
\* that was active while the lookup ran calls for the same result (a hit
\* with the index the key was inserted with, or a miss for a key that was
\* not inserted), the lookup returns that result.
C28_HitIffInserted ==
    lkp_state = "LKP_DONE"
       => \A r \in lkp_called_for : lkp_called_for = {r} => lookup_result = r

\* The part of C28 the table does follow: probed from start to end against
\* the active map, every key gives the result called for by the pairs
\* inserted into that map.
C28_StableMapLookup ==
    \A k \in CamKeys : MapLookup(ActiveTable, k) = InsertedResult(k)

\* A lookup ends after at most MAX_PROBES probes.
C28_ProbeLimit == lkp_probe_cnt <= MAX_PROBES - 1


(***************************************************************************)
(* Properties of the symbol table's commit, checked under SpecCam          *)
(***************************************************************************)
\* The pairs <<key, index>> a buffer holds in its valid slots.
Entries(tab) ==
    { <<tab[a].key, tab[a].value>> : a \in { b \in 0..(HASH_SIZE - 1) : tab[b].valid } }

\* C29: after a commit the new shadow map is empty, so the shadow map holds
\* exactly the pairs loaded since the previous commit, and the active map
\* exactly the pairs loaded between the two commits before it was
\* activated, with none from an earlier epoch.
C29_MapsHoldEpochLoads ==
    /\ Entries(ShadowTable) = ShadowInserted
    /\ Entries(ActiveTable) = ActiveInserted

\* After the second commit the buffer that was loaded in the first epoch is
\* the shadow buffer again and has taken one load of the third epoch, while
\* the active map holds the one pair of the second epoch.
C29_Witness ==
    /\ cam_commits = 2
    /\ cam_loads = 3
    /\ load_count = 1
    /\ Cardinality(ActiveInserted) = 1
    /\ Cardinality(Entries(ShadowTable)) = 1


(***************************************************************************)
(* Properties of the book's Add rule, checked under SpecBook               *)
(***************************************************************************)
\* book_tob.sv:136-140, the edge at which the BRAM takes the write the state
\* machine set up in BOOK_WRITE for the message in msg_reg
entry_written == book_state = "BOOK_EMIT" /\ bram_en[last_bank] /\ bram_we[last_bank]

\* The top of book of an entry, and its price and quantity on one side.
TopOfBook(e) == <<e.bid_px, e.bid_qty, e.ask_px, e.ask_qty>>
SideOf(e, side) == IF side = "SIDE_BID" THEN <<e.bid_px, e.bid_qty>>
                   ELSE <<e.ask_px, e.ask_qty>>

\* The new price strictly improves on the stored one: greater for a bid,
\* less for an ask.
improves(e, msg) == IF msg.side = "SIDE_BID" THEN msg.price > e.bid_px
                    ELSE msg.price < e.ask_px

\* C30: an Add ('A'/'F') for symbol s and side d replaces the (price, qty) of
\* s on side d if the stored qty of that side is 0 or the new price strictly
\* improves on the stored price, and otherwise leaves the top of book of s
\* unchanged.
C30_AddRule ==
    [][(entry_written /\ msg_reg.msg_type \in {"A", "F"})
         => LET stored == StoredEntry(msg_reg.symbol_idx)
                after == StoredEntry(msg_reg.symbol_idx)'
            IN  IF SideOf(stored, msg_reg.side)[2] = 0 \/ improves(stored, msg_reg)
                THEN SideOf(after, msg_reg.side) = <<msg_reg.price, msg_reg.qty>>
                ELSE TopOfBook(after) = TopOfBook(stored)]_vars

\* The rule as the state machine applies it: to the entry in current_entry
\* at the BOOK_PROCESS edge.
C30_AddRuleOnCurrentEntry ==
    [][(book_state = "BOOK_PROCESS" /\ msg_reg.msg_type \in {"A", "F"})
         => IF ~current_entry.valid
               \/ SideOf(current_entry, msg_reg.side)[2] = 0
               \/ improves(current_entry, msg_reg)
            THEN SideOf(updated_entry', msg_reg.side) = <<msg_reg.price, msg_reg.qty>>
            ELSE TopOfBook(updated_entry') = TopOfBook(current_entry)]_vars

\* The first Add after reset is applied as the claim says.
C30_FirstAdd ==
    [][(entry_written /\ msg_reg.msg_type \in {"A", "F"} /\ book_msgs = 1
          /\ bram_mem = [b \in Banks |-> [a \in 0..(BANK_SIZE - 1) |-> ZeroEntry]])
         => SideOf(StoredEntry(msg_reg.symbol_idx)', msg_reg.side)
               = <<msg_reg.price, msg_reg.qty>>]_vars

(***************************************************************************)
(* Properties of the book under SpecBookExec                               *)
(***************************************************************************)
\* C31: after an Executed-with-price ('C') message is applied, the book
\* entry's last_trade_px equals the message's execution price and its
\* last_trade_qty equals the message's executed shares.
C31_ExecPxRecordsTrade ==
    [][(entry_written /\ msg_reg.msg_type = "C")
         => LET after == StoredEntry(msg_reg.symbol_idx)'
            IN  /\ after.last_trade_px = msg_reg.price
                /\ after.last_trade_qty = msg_reg.qty]_vars

\* What BOOK_PROCESS does for 'C': it leaves the last trade of current_entry
\* as it is.
C31_ExecPxKeepsLastTrade ==
    [][(book_state = "BOOK_PROCESS" /\ msg_reg.msg_type = "C")
         => /\ updated_entry'.last_trade_px = current_entry.last_trade_px
            /\ updated_entry'.last_trade_qty = current_entry.last_trade_qty]_vars

\* C32: a message with symbol_valid = FALSE does not modify any book entry:
\* no entry changes at the edge that takes such a message into msg_reg nor
\* at any edge while it is there.
C32_UnknownSymbolNoUpdate ==
    [][(~msg_reg.symbol_valid \/ ~msg_reg'.symbol_valid)
         => bram_mem' = bram_mem]_vars

\* An Add of an unknown symbol, whose index is 0, has gone through BOOK_EMIT
\* after an earlier message was stored for symbol 0.
C32_Witness ==
    /\ msg_reg.msg_type = "A"
    /\ ~msg_reg.symbol_valid
    /\ book_state = "BOOK_IDLE"
    /\ event_pending
    /\ book_event_reg.trigger_msg_type = "A"
    /\ StoredEntry(msg_reg.symbol_idx).valid

(***************************************************************************)
(* Properties of the latency histogram, checked under SpecHist             *)
(***************************************************************************)
\* The sample in the pipeline stage is taken into the histogram and the
\* statistics at the next edge.
sample_counted == sample_valid_d1

\* C33: the top bin is saturating: a sample whose latency is at or beyond
\* the range covered by the bins increments the top bin.
C33_TopBinSaturating ==
    [][(sample_counted /\ latency_d1 >= MAX_BIN_LATENCY)
         => hist_mem'[HIST_BINS - 1] = hist_mem[HIST_BINS - 1] + 1]_vars

\* What the module does with such a sample: no bin changes and
\* stat_overflow counts it.
C33_OverflowLeftOut ==
    [][(sample_counted /\ latency_d1 >= MAX_BIN_LATENCY)
         => /\ hist_mem' = hist_mem
            /\ stat_overflow' = stat_overflow + 1]_vars

\* A sample inside the range increments the bin latency / 2^BIN_SHIFT and
\* no other.
C33_InRangeBinned ==
    [][(sample_counted /\ latency_d1 < MAX_BIN_LATENCY)
         => hist_mem' = [hist_mem EXCEPT ![latency_d1 \div 2 ^ BIN_SHIFT] = @ + 1]]_vars

(***************************************************************************)
(* Properties of the handshakes between book, risk gate and publisher      *)
(***************************************************************************)
\* risk_gate.sv:369 with dma_pcie_ep.sv:502 (decision_ready is record_ready,
\* t2t_top.sv:483-484 and 523-524): the gate offers a decision and the
\* publisher does not take it in this cycle.
decision_refused == decision_valid /\ ~decision_ready

\* A step that is a clock edge of the gate (the host's register writes are
\* steps of their own).
core_clk_edge == timestamp_cnt' = timestamp_cnt + 1

\* C34: every message accepted by the book results in exactly one decision
\* transferred to the publisher; in particular a risk decision that is
\* offered in a cycle in which the publisher is not ready is not lost: it
\* is still offered, unchanged, in the next cycle.
C34_DecisionHeldUntilTaken ==
    [][(decision_refused /\ core_clk_edge)
         => (decision_valid' /\ decision_reg' = decision_reg)]_vars

\* What the gate does: a decision is offered during one cycle, whether it
\* is taken or not.
C34_DecisionOfferedOneCycle ==
    [][(decision_valid /\ core_clk_edge) => ~decision_valid']_vars

\* The book offers an event during one cycle, whatever event_ready is
\* (checked under SpecBook).
C34_EventOfferedOneCycle == [][book_event_valid => ~book_event_valid']_vars

\* The publisher can be not ready while a record is offered to it (checked
\* under SpecRing).
C34_PublisherAlwaysReady == (record_valid /\ cfg_enable) => record_ready

(***************************************************************************)
(* Properties of one book update, checked under SpecBookFrame              *)
(***************************************************************************)
\* The top of book and the last trade a book event reports.
Reported(e) == <<e.bid_px, e.bid_qty, e.ask_px, e.ask_qty, e.last_trade_px,
                 e.last_trade_qty>>

\* C35: a book update for a message on symbol s applies the update rule to
\* the entry stored for s and writes the result to s only: the entry of s
\* after the write is the rule applied to the entry of s before it, no
\* other entry changes, and the book event reports the values written.
C35_UpdateOfOwnEntry ==
    [][entry_written
         => LET s == msg_reg.symbol_idx
            IN  /\ StoredEntry(s)' = UpdatedEntry(StoredEntry(s), msg_reg)
                /\ \A i \in 0..(NUM_SYMBOLS - 1) \ {s} :
                      StoredEntry(i)' = StoredEntry(i)
                /\ Reported(book_event_reg') = Reported(StoredEntry(s)')]_vars

\* The frame part alone: the write changes no entry but the one of s, and
\* the event reports what was written.
C35_OnlyOwnEntryWritten ==
    [][entry_written
         => LET s == msg_reg.symbol_idx
            IN  /\ \A i \in 0..(NUM_SYMBOLS - 1) \ {s} :
                      StoredEntry(i)' = StoredEntry(i)
                /\ Reported(book_event_reg') = Reported(StoredEntry(s)')]_vars

\* No entry changes at any other edge.
C35_NoOtherWrite == [][~entry_written => bram_mem' = bram_mem]_vars

\* The prices stored for a symbol are 0, a power-up value or the price of
\* that symbol's messages.  They are not: the entry of another symbol is
\* written to it.
C35_PricesOfOwnSymbol ==
    \A i \in FrameSymbols :
       /\ StoredEntry(i).bid_px \in {0, FramePrice(i)}
                                      \cup { e.bid_px : e \in PowerUpEntries }
       /\ StoredEntry(i).ask_px \in {0, FramePrice(i)}
                                      \cup { e.ask_px : e \in PowerUpEntries }

(***************************************************************************)
(* Properties of the frame's sideband, checked under SpecSplit             *)
(***************************************************************************)
\* itch_splitter.sv:272-278, the outcome of the sequence check of the
\* message in the buffer: gap, duplicate, and the stale latch after it.
own_seq_gap == cfg_seq_check_en /\ msg_buffer_seq > expected_seq
own_seq_dupe == cfg_seq_check_en /\ msg_buffer_seq < expected_seq
own_stale == stale_latch \/ own_seq_gap

\* C36: in the cycle in which a frame is transferred, the sequence number
\* and the gap, duplicate and stale flags the splitter puts on m_axis_tuser
\* (cur_seq, seq_gap_detected, seq_dupe_detected, stale_latch) are those of
\* the message in the frame: the sequence number in its bytes 1..4 and the
\* outcome of its own sequence check.
C36_FrameCarriesOwnSeqAndFlags ==
    frame_handover
      => /\ cur_seq = msg_buffer_seq
         /\ seq_gap_detected = own_seq_gap
         /\ seq_dupe_detected = own_seq_dupe
         /\ stale_latch = own_stale

\* The registers take the message's own values at the edge that ends the
\* transfer cycle, when the frame is gone.
C36_RegistersFollowTransfer ==
    [][(frame_handover /\ split_state' # split_state)
         => /\ cur_seq' = msg_buffer_seq
            /\ seq_gap_detected' = own_seq_gap
            /\ seq_dupe_detected' = own_seq_dupe
            /\ stale_latch' = own_stale]_vars

\* The gap and duplicate flags are never set in a transfer cycle.
C36_NoCheckFlagOnFrame ==
    frame_handover => (~seq_gap_detected /\ ~seq_dupe_detected)

(***************************************************************************)
(* Properties of the token bucket, checked under SpecRisk                  *)
(***************************************************************************)
\* risk_gate.sv:161-163, a token is consumed at this clock edge
token_consumed == consume_token /\ token_bucket > 0

\* C37: a replenishment that falls due in the same cycle in which a token
\* is consumed is not lost: after that cycle the token count equals
\* min(tokens + token_rate, token_max) - 1.
C37_ReplenishWithConsume ==
    [][(core_clk_edge /\ replenish_due /\ token_consumed)
         => token_bucket' = Min(token_bucket + cfg_token_rate, cfg_token_max) - 1]_vars

\* What the block does in such a cycle: the consume assignment overrides
\* the replenish assignment and the count only goes down by one.
C37_ConsumeOverridesReplenish ==
    [][(core_clk_edge /\ replenish_due /\ token_consumed)
         => token_bucket' = token_bucket - 1]_vars

\* A replenishment that falls due in a cycle without consumption is applied.
C37_ReplenishAlone ==
    [][(core_clk_edge /\ replenish_due /\ ~token_consumed
          /\ token_bucket < cfg_token_max)
         => token_bucket' = Min(token_bucket + cfg_token_rate, cfg_token_max)]_vars

(***************************************************************************)
(* C38: the reference price of the price-band check                        *)
(***************************************************************************)
\* The reference price stored for the symbol of the event under evaluation.
own_ref_price == ref_price_mem[event_reg.symbol_idx]

\* risk_gate.sv:193-215 evaluated on own_ref_price
own_band_ok ==
    \/ own_ref_price = 0
    \/ cfg_price_band_bps = 0
    \/ (IF current_price >= own_ref_price THEN current_price - own_ref_price
        ELSE own_ref_price - current_price) * BPS_SCALE
         <= own_ref_price * cfg_price_band_bps

C39_RunDeliversPublishedInOrder ==
    [][records_processed_' = records_processed_ + 1 =>
          /\ run_idx = records_processed_ % RING_DEPTH
          /\ records_processed_ < stat_records_dma]_vars

\* PCIeConsumer::run has processed more records than were published.
C39_RunBeyondProducer == records_processed_ > stat_records_dma

\* Until the producer index wraps, run never reads beyond it.
C39_RunInOrderBeforeWrap ==
    (stat_records_dma < RING_DEPTH) => (records_processed_ <= stat_records_dma)

\* Device::poll, which wraps its index at the ring length, never hands over
\* more records than were published.
C39_PollWithinProducer == consumed <= stat_records_dma


(***************************************************************************)
(* C40: the asynchronous FIFO                                              *)
(***************************************************************************)
\* C40: the words taken on the read side are, in order, the words accepted
\* on the write side: the delivered sequence is a prefix of the accepted
\* sequence in every state, whatever the order of the edges of the two
\* clocks.
C40_DeliversAcceptedSequence ==
    /\ Len(rd_delivered) <= Len(wr_accepted)
    /\ \A i \in 1..Len(rd_delivered) :
          i <= Len(wr_accepted) => rd_delivered[i] = wr_accepted[i]

\* A word was delivered twice.
C40_Duplicated ==
    \E i, j \in 1..Len(rd_delivered) : i < j /\ rd_delivered[i] = rd_delivered[j]

\* The pointers: never more than DEPTH words between the read and the write
\* pointer, so no word is overwritten before the read pointer has passed
\* it, and no more transfers on the read side than on the write side.
C40_PointersWithinDepth ==
    /\ (wr_ptr_bin + PTR_MOD - rd_ptr_bin) % PTR_MOD <= DEPTH
    /\ Len(wr_accepted) - Len(rd_delivered) = (wr_ptr_bin + PTR_MOD - rd_ptr_bin) % PTR_MOD

\* The word under the read pointer in the cycle of a transfer is the next
\* word of the accepted sequence.
C40_WordUnderReadPointer ==
    [][Len(rd_delivered') = Len(rd_delivered) + 1 =>
          afifo_m_axis_tdata_comb = wr_accepted[Len(rd_delivered) + 1]]_vars

=============================================================================
